---- MODULE Spec2Model ----
(***************************************************************************)
(* A model of the components of the repository:                            *)
(*   - ComponentRenderer (src/src/problems/problem2.ts): a registry of     *)
(*     validators and the recursive render of a screen configuration;      *)
(*   - TransformPipeline (src/unnamed/part_003): an immutable sequence of  *)
(*     transformers, its execute with synchronous and asynchronous         *)
(*     stages, and the library of transformers on arrays of metrics;       *)
(*   - parseMetrics (src/src/problems/problem1.ts): the validation of an   *)
(*     array of untyped items;                                             *)
(*   - ApiClient (src/src/problems/problem3.ts): get with its retries, and *)
(*     the two methods that turn the dates of what get returns.            *)
(* JavaScript values are encoded as records tagged with their typeof-like  *)
(* kind, so that every check the code makes on an untyped value            *)
(* (typeof, Array.isArray, === null, truthiness) is a check on the tag.    *)
(***************************************************************************)
EXTENDS Integers, Sequences, FiniteSets, TLC

(***************************************************************************)
(* Bounds of the model.                                                    *)
(***************************************************************************)
\* the longest items array of a grid or list node
MaxItems == 2
\* the longest components array of a screen configuration
MaxComponents == 2
\* the deepest nesting of grid/list nodes
MaxDepth == 2
\* the most render calls made on one renderer
MaxRenders == 3
\* the most TransformPipeline instances created
MaxPipelines == 3
\* the most execute calls made
MaxExecutions == 2
\* the most stages of a pipeline built before the execute calls begin
MaxStages == 2
\* the longest array of metrics passed to a library transformer
MaxMetrics == 5
\* the longest array made of the objects of the pool, in every order and
\* with repetitions
MaxSamples == 3
\* the largest maxPoints and windowSize passed to a library transformer
MaxParameter == 3
\* the bits of the significand of a number (a JavaScript number has 53)
Precision == 4
\* the longest array passed to parseMetrics
MaxJson == 3
\* the largest maxRetries a client is configured with, besides the default
MaxRetries == 2
\* the most calls made on the client
MaxRequests == 1

(***************************************************************************)
(* JavaScript values.  A number is kept in halves (half = 2 * value), so   *)
(* that non-integer numbers such as 1.5 exist.                             *)
(***************************************************************************)
Undefined == [k |-> "undefined"]
Null == [k |-> "null"]
Str(s) == [k |-> "string", s |-> s]
Num(n) == [k |-> "number", half |-> 2 * n]
HalfNum(h) == [k |-> "number", half |-> h]
Bool(b) == [k |-> "boolean", b |-> b]
Arr(items) == [k |-> "array", items |-> items]
Obj(fields) == [k |-> "object", f |-> fields]

\* typeof v === 'object' (true of objects, arrays and null)
TypeofObject(v) == v.k \in {"object", "array", "null"}
\* typeof v === 'string'
TypeofString(v) == v.k = "string"
\* typeof v === 'number'
TypeofNumber(v) == v.k = "number"
\* Array.isArray(v)
IsArray(v) == v.k = "array"
\* the property read v.name of a non-null object or array (undefined when absent)
Get(v, name) ==
  IF v.k = "object" /\ name \in DOMAIN v.f THEN v.f[name] ELSE Undefined
\* JavaScript truthiness, as used by the || operator
Truthy(v) ==
  CASE v.k = "undefined" -> FALSE
    [] v.k = "null" -> FALSE
    [] v.k = "string" -> v.s # ""
    [] v.k = "number" -> v.half # 0
    [] v.k = "boolean" -> v.b
    [] OTHER -> TRUE
\* a ?? b, in place of a || b
NullishElse(a, b) == IF a \in {Undefined, Null} THEN b ELSE a
\* a || b
OrElse(a, b) == IF Truthy(a) THEN a ELSE b
\* String.prototype.trim on the strings of the model
Trim(s) == IF s \in {"", " ", "  "} THEN "" ELSE s

(***************************************************************************)
(* Completions of a validator call and of renderComponent: a returned      *)
(* value, or a thrown exception that propagates until a try/catch.         *)
(***************************************************************************)
\* throw new Error(message)
ThrowError(message) == [threw |-> TRUE, isError |-> TRUE, message |-> message]
\* throw value (not an Error instance)
ThrowValue(text) == [threw |-> TRUE, isError |-> FALSE, message |-> text]
IsThrow(c) == "threw" \in DOMAIN c
\* a validator's `return null`
ReturnNull == [returned |-> "null"]
\* a validator's `return component`
ReturnComponent(c) == [returned |-> "component", component |-> c]

\* RenderedComponent
Rendered(c) == [isValid |-> TRUE, component |-> c]
\* UnknownComponent
Failure(type, data, error) ==
  [isValid |-> FALSE, type |-> type, rawData |-> data, error |-> error]
\* RenderOutput
Output(screen, components, errors) ==
  [screen |-> screen, components |-> components, errors |-> errors]

\* a filter that keeps every result
KeepAll(results) == results
\* results.filter(result => result.isValid)
FilterValid(results) ==
  LET Valid(r) == r.isValid IN SelectSeq(results, Valid)
\* results.filter(result => !result.isValid).map(result => result.error)
CollectErrors(results) ==
  LET Invalid(r) == ~r.isValid
      failed == SelectSeq(results, Invalid)
  IN [i \in 1..Len(failed) |-> failed[i].error]

\* Array.prototype.map with a callback that may throw: the first exception
\* thrown by the callback propagates out of map
MapCompletion(results) ==
  IF \E i \in 1..Len(results) : IsThrow(results[i])
  THEN results[CHOOSE i \in 1..Len(results) :
                 IsThrow(results[i]) /\ \A j \in 1..(i - 1) : ~IsThrow(results[j])]
  ELSE [values |-> results]

RECURSIVE renderComponent(_, _)

(***************************************************************************)
(* The default validators (registerDefaultValidators).                     *)
(***************************************************************************)
headerValidator(data) ==
  LET text == Get(data, "text") IN
  IF ~TypeofString(text) \/ Trim(text.s) = ""
  THEN ReturnNull
  ELSE ReturnComponent(Obj([type |-> Str("header"),
                            text |-> text,
                            style |-> OrElse(Get(data, "style"), Str("medium")),
                            id |-> Get(data, "id")]))

chartValidator(data) ==
  LET points == Get(data, "data") IN
  IF ~IsArray(points) \/ Len(points.items) = 0
  THEN ReturnNull
  ELSE IF Get(data, "chartType") \notin {Str("line"), Str("bar"), Str("pie")}
  THEN ReturnNull
  ELSE ReturnComponent(Obj([type |-> Str("chart"),
                            data |-> points,
                            chartType |-> Get(data, "chartType"),
                            title |-> Get(data, "title"),
                            id |-> Get(data, "id")]))

metricValidator(data) ==
  LET label == Get(data, "label") IN
  IF ~TypeofString(label) \/ Trim(label.s) = ""
  THEN ReturnNull
  ELSE IF Get(data, "value") \in {Undefined, Null}
  THEN ReturnNull
  ELSE ReturnComponent(Obj([type |-> Str("metric"),
                            label |-> label,
                            value |-> Get(data, "value"),
                            unit |-> Get(data, "unit"),
                            id |-> Get(data, "id")]))

\* data.items.map(item => this.renderComponent(item))
RenderItems(reg, items) ==
  MapCompletion([i \in 1..Len(items) |-> renderComponent(reg, items[i])])

gridValidator(reg, data) ==
  LET columns == Get(data, "columns") IN
  IF ~TypeofNumber(columns) \/ columns.half < 2
  THEN ReturnNull
  ELSE IF ~IsArray(Get(data, "items"))
  THEN ReturnNull
  ELSE LET results == RenderItems(reg, Get(data, "items").items) IN
       IF IsThrow(results) THEN results
       ELSE ReturnComponent(Obj([type |-> Str("grid"),
                                 columns |-> columns,
                                 items |-> Arr(FilterValid(results.values)),
                                 id |-> Get(data, "id")]))

listValidator(reg, data) ==
  IF ~IsArray(Get(data, "items"))
  THEN ReturnNull
  ELSE LET results == RenderItems(reg, Get(data, "items").items) IN
       IF IsThrow(results) THEN results
       ELSE ReturnComponent(Obj([type |-> Str("list"),
                                 items |-> Arr(FilterValid(results.values)),
                                 orientation |-> OrElse(Get(data, "orientation"),
                                                        Str("vertical")),
                                 id |-> Get(data, "id")]))

(***************************************************************************)
(* Validators a caller registers: ComponentValidator is any function, so   *)
(* it may return null, return a component, or throw an Error or any other  *)
(* value.                                                                  *)
(***************************************************************************)
CustomValidators == {"returnsNull", "returnsData", "throwsError", "throwsString"}
DefaultValidators == {"header", "chart", "metric", "grid", "list"}

\* validator(data), for the validator named v
CallValidator(reg, v, data) ==
  CASE v = "header" -> headerValidator(data)
    [] v = "chart" -> chartValidator(data)
    [] v = "metric" -> metricValidator(data)
    [] v = "grid" -> gridValidator(reg, data)
    [] v = "list" -> listValidator(reg, data)
    [] v = "returnsNull" -> ReturnNull
    [] v = "returnsData" -> ReturnComponent(data)
    [] v = "throwsError" -> ThrowError("boom")
    [] v = "throwsString" -> ThrowValue("oops")

\* the registry after registerDefaultValidators
DefaultRegistry == [t \in DefaultValidators |-> t]

\* a registration that keeps the validator a type already has
registerIfAbsent(reg, type, v) ==
  [t \in DOMAIN reg \cup {type} |-> IF t \in DOMAIN reg THEN reg[t] ELSE v]
\* this.registry.set(type, validator)
registerComponent(reg, type, v) ==
  [t \in DOMAIN reg \cup {type} |-> IF t = type THEN v ELSE reg[t]]

\* error instanceof Error ? error.message : String(error)
ErrorText(e) == e.message

\* the validator call without the try/catch: the exception propagates
CallWithoutCatch(completion, data) ==
  LET type == Get(data, "type").s IN
  IF IsThrow(completion)
  THEN completion
  ELSE IF completion = ReturnNull
  THEN Failure(type, data, "Invalid data for component type \"" \o type \o "\"")
  ELSE Rendered(completion.component)
\* the try/catch around the validator call
CatchValidator(completion, data) ==
  LET type == Get(data, "type").s IN
  IF IsThrow(completion)
  THEN Failure(type, data, "Validation error: " \o ErrorText(completion))
  ELSE IF completion = ReturnNull
  THEN Failure(type, data, "Invalid data for component type \"" \o type \o "\"")
  ELSE Rendered(completion.component)

\* renderComponent reporting an unknown type without naming it
renderComponentAnonymous(reg, data) ==
  IF ~TypeofObject(data) \/ data = Null
  THEN Failure("invalid", data, "Component data must be an object")
  ELSE IF ~TypeofString(Get(data, "type"))
  THEN Failure("unknown", data, "Component must have a \"type\" field")
  ELSE LET type == Get(data, "type").s IN
       IF type \notin DOMAIN reg
       THEN Failure("unknown", data, "Unknown component type")
       ELSE CatchValidator(CallValidator(reg, reg[type], data), data)

\* renderComponent checking the type field before the node itself
renderComponentTypeFirst(reg, data) ==
  IF ~TypeofString(Get(data, "type"))
  THEN Failure("unknown", data, "Component must have a \"type\" field")
  ELSE IF ~TypeofObject(data) \/ data = Null
  THEN Failure("invalid", data, "Component data must be an object")
  ELSE LET type == Get(data, "type").s IN
       IF type \notin DOMAIN reg
       THEN Failure(type, data, "Unknown component type: \"" \o type \o "\"")
       ELSE CatchValidator(CallValidator(reg, reg[type], data), data)

renderComponent(reg, data) ==
  IF ~TypeofObject(data) \/ data = Null
  THEN Failure("invalid", data, "Component data must be an object")
  ELSE IF ~TypeofString(Get(data, "type"))
  THEN Failure("unknown", data, "Component must have a \"type\" field")
  ELSE LET type == Get(data, "type").s IN
       IF type \notin DOMAIN reg
       THEN Failure(type, data, "Unknown component type: \"" \o type \o "\"")
       ELSE CatchValidator(CallValidator(reg, reg[type], data), data)

\* a map that drops the failed results, as the grid and list validators do
RenderValidComponents(reg, components) ==
  LET results ==
        MapCompletion([i \in 1..Len(components) |->
                         renderComponent(reg, components[i])])
  IN IF IsThrow(results) THEN results ELSE [values |-> FilterValid(results.values)]

\* data.components.map(comp => this.renderComponent(comp))
RenderComponents(reg, components) ==
  MapCompletion([i \in 1..Len(components) |-> renderComponent(reg, components[i])])

\* render taking a missing components array for an empty one
renderDefaultingComponents(reg, config) ==
  IF ~TypeofObject(config) \/ config = Null
  THEN Output("unknown", <<>>, <<"Invalid configuration: must be an object">>)
  ELSE IF ~TypeofString(Get(config, "screen"))
  THEN Output("unknown", <<>>, <<"Invalid configuration: missing \"screen\" field">>)
  ELSE LET components == IF IsArray(Get(config, "components"))
                         THEN Get(config, "components").items ELSE <<>>
           results == RenderComponents(reg, components)
       IN IF IsThrow(results) THEN results
          ELSE Output(Get(config, "screen").s, results.values,
                      CollectErrors(results.values))

render(reg, config) ==
  IF ~TypeofObject(config) \/ config = Null
  THEN Output("unknown", <<>>, <<"Invalid configuration: must be an object">>)
  ELSE IF ~TypeofString(Get(config, "screen"))
  THEN Output("unknown", <<>>, <<"Invalid configuration: missing \"screen\" field">>)
  ELSE IF ~IsArray(Get(config, "components"))
  THEN Output(Get(config, "screen").s, <<>>,
              <<"Invalid configuration: \"components\" must be an array">>)
  ELSE LET results == RenderComponents(reg, Get(config, "components").items) IN
       IF IsThrow(results) THEN results
       ELSE Output(Get(config, "screen").s, results.values,
                   CollectErrors(results.values))

(***************************************************************************)
(* Inputs of the renderer: the nodes and configurations a caller passes,   *)
(* and the validators it registers.                                        *)
(***************************************************************************)
HeaderNode(text, style) ==
  Obj([type |-> Str("header"), text |-> text, style |-> style])
MetricNode(label, value) ==
  Obj([type |-> Str("metric"), label |-> label, value |-> value])
ChartNode(points, chartType) ==
  Obj([type |-> Str("chart"), data |-> points, chartType |-> chartType])
GridNode(columns, items) ==
  Obj([type |-> Str("grid"), columns |-> columns, items |-> items])
ListNode(items) == Obj([type |-> Str("list"), items |-> items])

OkMetric == MetricNode(Str("GPU"), Num(85))
OkHeader == Obj([type |-> Str("header"), text |-> Str("Hi")])
CustomNode == Obj([type |-> Str("custom"), id |-> Str("c1")])

\* nodes that are no grid and no list
LeafNodes ==
  { Num(42), Null, Arr(<<>>),
    Obj([text |-> Str("Hi")]),
    Obj([type |-> Num(7), text |-> Str("Hi")]),
    OkHeader,
    HeaderNode(Str("Hi"), Str("large")),
    HeaderNode(Str("Hi"), Str("")),
    HeaderNode(Str("Hi"), Null),
    HeaderNode(Str("Hi"), Num(0)),
    HeaderNode(Str("Hi"), Bool(FALSE)),
    HeaderNode(Str("Hi"), Undefined),
    HeaderNode(Str(" "), Str("large")),
    HeaderNode(Num(1), Str("large")),
    OkMetric,
    MetricNode(Str("GPU"), Null),
    ChartNode(Arr(<<Num(1), Num(2)>>), Str("line")),
    ChartNode(Arr(<<>>), Str("line")),
    CustomNode,
    Obj([type |-> Str("unknown"), data |-> Str("x")]) }

\* the children of grid and list nodes are runs of this sequence
ItemMenu ==
  <<OkMetric, CustomNode, Num(42), OkHeader, HeaderNode(Str(" "), Str("large"))>>

\* the contiguous runs of at most n entries of menu
Runs(menu, n) ==
  { SubSeq(menu, p[1], p[1] + p[2] - 1) :
      p \in { q \in (1..Len(menu)) \X (0..n) : q[1] + q[2] - 1 <= Len(menu) } }

ItemLists == Runs(ItemMenu, MaxItems)

\* grid and list nodes whose children are leaves
FlatComposites ==
  { GridNode(Num(2), Arr(w)) : w \in ItemLists }
    \cup { ListNode(Arr(w)) : w \in ItemLists }
    \cup { GridNode(HalfNum(3), Arr(<<OkMetric, Null>>)) }

\* grid and list nodes nested d deep, with leaves beside the nested node
RECURSIVE NestedComposites(_)
NestedComposites(d) ==
  IF d <= 1
  THEN { GridNode(Num(2), Arr(SubSeq(ItemMenu, 1, MaxItems))),
         ListNode(Arr(SubSeq(ItemMenu, 2, MaxItems + 1))) }
  ELSE { GridNode(Num(3), Arr(<<c>> \o SubSeq(ItemMenu, 2, MaxItems))) :
           c \in NestedComposites(d - 1) }
       \cup { ListNode(Arr(SubSeq(ItemMenu, 2, MaxItems) \o <<c>>)) :
                c \in NestedComposites(d - 1) }

\* grid and list nodes that fail their own field checks
InvalidComposites ==
  { GridNode(Num(0), Arr(<<OkMetric>>)),
    GridNode(Str("2"), Arr(<<OkMetric>>)),
    GridNode(Num(2), Str("items")),
    ListNode(Null),
    Obj([type |-> Str("list")]) }

CompositeNodes ==
  FlatComposites \cup InvalidComposites
    \cup UNION { NestedComposites(d) : d \in 2..MaxDepth }

Nodes == LeafNodes \cup CompositeNodes

\* the siblings a node is rendered with are runs of this sequence
SiblingMenu ==
  ItemMenu \o <<GridNode(Num(2), Arr(<<CustomNode, OkMetric>>))>>

SiblingLists == Runs(SiblingMenu, MaxComponents - 1)

\* the components arrays: one node of any shape among siblings
ComponentLists ==
  {<<>>} \cup { <<n>> \o w : n \in Nodes, w \in SiblingLists }
         \cup { w \o <<n>> : n \in Nodes, w \in SiblingLists }

ScreenConfig(screen, components) ==
  Obj([screen |-> screen, components |-> components])

\* configurations render rejects as a whole
InvalidConfigs ==
  { Undefined, Null, Num(42), Str("dashboard"), Arr(<<OkMetric>>), Obj(<<>>),
    Obj([screen |-> Str("dashboard")]),
    Obj([components |-> Arr(<<OkMetric>>)]),
    ScreenConfig(Num(1), Arr(<<OkMetric>>)),
    ScreenConfig(Str("dashboard"), Str("components")),
    ScreenConfig(Str("dashboard"), Null) }

Configs ==
  InvalidConfigs
    \cup { ScreenConfig(Str("dashboard"), Arr(cs)) : cs \in ComponentLists }
    \cup { ScreenConfig(Str(""), Arr(<<n>>)) : n \in LeafNodes }

\* the registerComponent calls of the callers
Registrations ==
  { <<"header", "throwsError">>, <<"header", "returnsData">>,
    <<"custom", "returnsData">>, <<"custom", "returnsNull">>,
    <<"custom", "throwsString">> }

(***************************************************************************)
(* TransformPipeline.  A transformer is named by what it does to a number: *)
(* the pipeline treats its stages as opaque functions that return a value, *)
(* throw, or return a promise that resolves or rejects later.              *)
(***************************************************************************)
Transformers == {"inc", "double", "fail", "enrich", "reject"}

\* the transformers that are async functions: they return a promise that
\* settles only after a timer fires, as enrichWithMetadata does
AsyncTransformers == {"enrich", "reject"}

\* the transformers that return or throw before they give control back
SyncTransformers == Transformers \ AsyncTransformers

\* the inputs passed to execute
Inputs == {1, 2}

\* transformer(result), once settled: a value, or a thrown exception or
\* rejection
CallTransformer(t, x) ==
  CASE t = "inc" -> [value |-> x + 1]
    [] t = "double" -> [value |-> 2 * x]
    [] t = "fail" -> ThrowError("bad input")
    [] t = "enrich" -> [value |-> x + 10]
    [] t = "reject" -> ThrowValue("timed out")

\* new TransformPipeline(): private transformers = []
NewPipeline == [transformers |-> <<>>]

\* a pipe that pushes the transformer onto the receiver's own array
pipeInPlace(heap, this, transformer) ==
  LET pushed == [heap EXCEPT ![this].transformers = Append(@, transformer)]
  IN Append(pushed, [transformers |-> pushed[this].transformers])

\* this.pipe(transformer), on the heap of pipeline instances: the new
\* instance is the last of the heap
pipe(heap, this, transformer) ==
  Append(heap, [transformers |-> heap[this].transformers \o <<transformer>>])

\* get length()
length(heap, this) == Len(heap[this].transformers)

\* a message that numbers the steps from 0
StepFailureFromZero(i, e) ==
  "Pipeline execution failed at step " \o ToString(i) \o ": " \o ErrorText(e)

\* the message of the Error execute throws when step i (0-based) fails
StepFailure(i, e) ==
  "Pipeline execution failed at step " \o ToString(i + 1) \o ": " \o ErrorText(e)

\* the record of a stage call: stage k (1-based) was invoked with arg
Started(k, arg) == [op |-> "start", stage |-> k, v |-> [value |-> arg]]
\* the record of a stage's completion: its returned or resolved value, or
\* its exception or rejection
Ended(k, completion) == [op |-> "end", stage |-> k, v |-> completion]

\* result = transformer(result) with no await: the call goes on to the next
\* step at once, with the value it had, while an async transformer runs
InvokeWithoutAwait(t, x) ==
  LET completion == CallTransformer(t, x.result)
      started == [x EXCEPT !.trace = Append(@, Started(x.i + 1, x.result))]
  IN IF t \in AsyncTransformers
     THEN [started EXCEPT !.status = "awaiting",
                          !.pending = [value |-> x.result]]
     ELSE IF IsThrow(completion)
     THEN [started EXCEPT !.status = "rejected",
                          !.error = StepFailure(x.i, completion),
                          !.trace = Append(@, Ended(x.i + 1, completion))]
     ELSE [started EXCEPT !.status = "awaiting", !.pending = completion,
                          !.trace = Append(@, Ended(x.i + 1, completion))]

\* await transformer(result), inside the try, for the execute call x at step
\* x.i: a transformer that throws rejects the call at once; one that returns
\* a value leaves the call at the await with that value; an async one leaves
\* the call at the await of a promise that is not settled yet
Invoke(t, x) ==
  LET completion == CallTransformer(t, x.result)
      started == [x EXCEPT !.trace = Append(@, Started(x.i + 1, x.result))]
  IN IF t \in AsyncTransformers
     THEN [started EXCEPT !.status = "pending"]
     ELSE IF IsThrow(completion)
     THEN [started EXCEPT !.status = "rejected",
                          !.error = StepFailure(x.i, completion),
                          !.trace = Append(@, Ended(x.i + 1, completion))]
     ELSE [started EXCEPT !.status = "awaiting", !.pending = completion,
                          !.trace = Append(@, Ended(x.i + 1, completion))]

\* one pass of execute's loop from the loop test on, for the execute call x:
\* past the last transformer the call returns result; else it calls
\* transformer i
RunToAwait(heap, x) ==
  IF x.i >= length(heap, x.pipeline)
  THEN [x EXCEPT !.status = "resolved"]
  ELSE Invoke(heap[x.pipeline].transformers[x.i + 1], x)

\* an execute that rejects a pipeline without transformers
executeRequiringStage(heap, this, input) ==
  LET x == [pipeline |-> this, input |-> input, i |-> 0,
            result |-> input, pending |-> [value |-> input],
            status |-> "running", error |-> "",
            pipelinesAtCall |-> Len(heap), trace |-> <<>>]
  IN IF length(heap, this) = 0
     THEN [x EXCEPT !.status = "rejected", !.error = "Pipeline is empty"]
     ELSE RunToAwait(heap, x)

\* this.execute(input) up to its first await
execute(heap, this, input) ==
  RunToAwait(heap, [pipeline |-> this, input |-> input, i |-> 0,
                    result |-> input, pending |-> [value |-> input],
                    status |-> "running", error |-> "",
                    pipelinesAtCall |-> Len(heap), trace |-> <<>>])

\* the promise of the async transformer the call x waits for settles
settle(heap, x) ==
  LET completion == CallTransformer(heap[x.pipeline].transformers[x.i + 1],
                                    x.result)
  IN [x EXCEPT !.status = "awaiting", !.pending = completion,
               !.trace = Append(@, Ended(x.i + 1, completion))]

\* a catch that drops the failure of a step and goes on with the next one
resumeIgnoringFailure(heap, x) ==
  IF IsThrow(x.pending)
  THEN RunToAwait(heap, [x EXCEPT !.i = x.i + 1])
  ELSE RunToAwait(heap, [x EXCEPT !.result = x.pending.value, !.i = x.i + 1])

\* the await ends: on a rejection the catch throws the Error of the step;
\* else result = <awaited value>, i++, and the loop goes on
resume(heap, x) ==
  IF IsThrow(x.pending)
  THEN [x EXCEPT !.status = "rejected", !.error = StepFailure(x.i, x.pending)]
  ELSE RunToAwait(heap, [x EXCEPT !.result = x.pending.value, !.i = x.i + 1])

(***************************************************************************)
(* Numbers of the library.  A metric's value is a binary floating-point    *)
(* number m * 2^e with a significand of Precision bits, and + and / round  *)
(* their exact result to the nearest such number, ties to the even         *)
(* significand, as the + and / of JavaScript numbers do.  The values of    *)
(* the model are not negative.                                             *)
(***************************************************************************)
RECURSIVE Pow2(_)
Pow2(n) == IF n <= 0 THEN 1 ELSE 2 * Pow2(n - 1)

\* the exponents a number of the model can have
Exponents == -12..12

FZero == [m |-> 0, e |-> 0]

\* the number nearest to the fraction n / d (n >= 0, d > 0)
Round(n, d) ==
  IF n = 0 THEN FZero
  ELSE LET Scaled(e) == IF e < 0 THEN n * Pow2(-e) ELSE n
           Unit(e) == IF e < 0 THEN d ELSE d * Pow2(e)
           e == CHOOSE x \in Exponents :
                  /\ Pow2(Precision - 1) * Unit(x) <= Scaled(x)
                  /\ Scaled(x) < Pow2(Precision) * Unit(x)
           q == Scaled(e) \div Unit(e)
           r == Scaled(e) % Unit(e)
           up == 2 * r > Unit(e) \/ (2 * r = Unit(e) /\ q % 2 = 1)
           m == IF up THEN q + 1 ELSE q
       IN IF m = Pow2(Precision) THEN [m |-> Pow2(Precision - 1), e |-> e + 1]
          ELSE [m |-> m, e |-> e]

\* the number for the integer n
Float(n) == Round(n, 1)

\* the numerator of a over the unit 2^lo
Over(a, lo) == a.m * Pow2(a.e - lo)

\* a + b
FAdd(a, b) ==
  LET lo == IF a.e < b.e THEN a.e ELSE b.e
      n == Over(a, lo) + Over(b, lo)
  IN IF lo < 0 THEN Round(n, Pow2(-lo)) ELSE Round(n * Pow2(lo), 1)

\* a / b, for b > 0
FDiv(a, b) ==
  LET lo == IF a.e < b.e THEN a.e ELSE b.e
  IN Round(Over(a, lo), Over(b, lo))

\* a < b
FLess(a, b) ==
  LET lo == IF a.e < b.e THEN a.e ELSE b.e
  IN Over(a, lo) < Over(b, lo)

\* values.reduce((a, b) => a + b, 0)
RECURSIVE FSum(_)
FSum(values) ==
  IF values = <<>> THEN FZero
  ELSE FAdd(FSum(SubSeq(values, 1, Len(values) - 1)), values[Len(values)])

\* Math.min(...values), for a non-empty values
RECURSIVE FMin(_)
FMin(values) ==
  IF Len(values) = 1 THEN values[1]
  ELSE LET rest == FMin(Tail(values)) IN
       IF FLess(rest, Head(values)) THEN rest ELSE Head(values)

\* Math.max(...values), for a non-empty values
RECURSIVE FMax(_)
FMax(values) ==
  IF Len(values) = 1 THEN values[1]
  ELSE LET rest == FMax(Tail(values)) IN
       IF FLess(Head(values), rest) THEN rest ELSE Head(values)

(***************************************************************************)
(* RawMetric objects.  The field id stands for the identity of the object: *)
(* two entries of an array with the same id are the same object.  A        *)
(* timestamp is the getTime() of the Date, in milliseconds.                *)
(***************************************************************************)
RawMetric(id, name, timestamp, value, step) ==
  [id |-> id, name |-> name, timestamp |-> timestamp, value |-> Float(value),
   step |-> step, metadata |-> <<>>]

\* the objects the arrays of the model are made of: two series, samples of
\* both at the same time, samples out of time order, and samples that lie
\* one and two minutes after the first of their series
MetricPool ==
  { RawMetric("a", "loss", 90000, 3, 2),
    RawMetric("b", "acc", 90000, 5, 2),
    RawMetric("c", "loss", 0, 7, 1),
    RawMetric("d", "loss", 120000, 1, 3),
    RawMetric("e", "acc", 150000, 2, 3) }

\* the arrays of at most n objects of a pool
RECURSIVE ArraysOf(_, _)
ArraysOf(pool, n) ==
  IF n = 0 THEN { <<>> }
  ELSE LET shorter == ArraysOf(pool, n - 1) IN
       shorter \cup { Append(a, o) : a \in { x \in shorter : Len(x) = n - 1 },
                                    o \in pool }

\* the values of the series in which every sample has the same value
ConstantValues == {1, 3, 7, 14}

\* a series of n samples of the value c, one second apart
ConstantSeries(c, n) ==
  [k \in 1..n |-> RawMetric(ToString(k), "loss", 1000 * k, c, k)]

\* a series of n objects, thirty seconds apart, every third of them of a
\* second name
Series(n) ==
  [k \in 1..n |-> RawMetric("s" \o ToString(k),
                            IF k % 3 = 0 THEN "acc" ELSE "loss",
                            30000 * k, k, k)]

\* the arrays passed to the transformers
MetricArrays ==
  ArraysOf(MetricPool, MaxSamples)
    \cup { Series(n) : n \in 1..MaxMetrics }
    \cup { ConstantSeries(c, n) : c \in ConstantValues, n \in 1..MaxMetrics }

\* the result of calling a transformer on the array metrics: what it
\* returns, and the array metrics as the call leaves it
Returned(output, metrics) == [output |-> output, input |-> metrics]

\* the 0-based indices 0, step, 2 * step, ... below length; a step of
\* Infinity (maxPoints = 0) selects index 0 only
SampledIndices(len, maxPoints) ==
  IF maxPoints = 0 THEN {0}
  ELSE LET step == len \div maxPoints IN { i \in 0..(len - 1) : i % step = 0 }

\* the elements of array at the 0-based indices of the set, in ascending order
RECURSIVE Pick(_, _)
Pick(array, indices) ==
  IF indices = {} THEN <<>>
  ELSE LET last == CHOOSE i \in indices : \A j \in indices : j <= i IN
       Append(Pick(array, indices \ {last}), array[last + 1])

\* sampleMetrics appending the last entry whenever the last index was not
\* selected, whatever object is there
sampleMetricsByIndex(maxPoints, metrics) ==
  IF Len(metrics) <= maxPoints THEN Returned(metrics, metrics)
  ELSE LET indices == SampledIndices(Len(metrics), maxPoints)
           sampled == Pick(metrics, indices)
       IN IF (Len(metrics) - 1) \notin indices
          THEN Returned(Append(sampled, metrics[Len(metrics)]), metrics)
          ELSE Returned(sampled, metrics)

\* transformers.sampleMetrics(maxPoints)(metrics)
sampleMetrics(maxPoints, metrics) ==
  IF Len(metrics) <= maxPoints THEN Returned(metrics, metrics)
  ELSE LET sampled == Pick(metrics, SampledIndices(Len(metrics), maxPoints))
       IN IF sampled[Len(sampled)].id # metrics[Len(metrics)].id
          THEN Returned(Append(sampled, metrics[Len(metrics)]), metrics)
          ELSE Returned(sampled, metrics)

\* the concatenation of the sequences of a sequence
RECURSIVE Flatten(_)
Flatten(seqs) == IF seqs = <<>> THEN <<>> ELSE Head(seqs) \o Flatten(Tail(seqs))

\* a sort that is not stable: entries with equal keys come out in the reverse
\* of their order in the array
SortTiesReversed(array, keys) ==
  LET Rank(i) == 1 + Cardinality({ j \in 1..Len(array) :
                                     \/ keys[j] < keys[i]
                                     \/ keys[j] = keys[i] /\ j > i })
  IN [r \in 1..Len(array) |-> array[CHOOSE i \in 1..Len(array) : Rank(i) = r]]

\* array.sort((a, b) => key(a) - key(b)), for the keys of the entries in
\* the order of the array: the sort is stable, so an entry comes after the
\* entries with a smaller key and those with an equal key that were before it
SortByKey(array, keys) ==
  LET Rank(i) == 1 + Cardinality({ j \in 1..Len(array) :
                                     \/ keys[j] < keys[i]
                                     \/ keys[j] = keys[i] /\ j < i })
  IN [r \in 1..Len(array) |-> array[CHOOSE i \in 1..Len(array) : Rank(i) = r]]

\* the keys of a Map filled in the order of the sequence: each key once, in
\* the order of its first entry
KeysInOrder(keys) ==
  LET first == { i \in 1..Len(keys) : \A j \in 1..(i - 1) : keys[j] # keys[i] }
  IN [r \in 1..Cardinality(first) |->
        keys[CHOOSE i \in first : Cardinality({ j \in first : j <= i }) = r]]

\* array.map(entry => entry.timestamp.getTime())
Timestamps(array) == [i \in 1..Len(array) |-> array[i].timestamp]
\* array.map(entry => entry.name)
Names(array) == [i \in 1..Len(array) |-> array[i].name]
\* array.map(entry => entry.startTime.getTime())
StartTimes(array) == [i \in 1..Len(array) |-> array[i].startTime]

\* a grouping that puts every metric into the group of every name
AllMetrics(metrics, name) == metrics

\* metricsByName.get(name): the metrics of the name, in the order of the array
nameMetrics(metrics, name) ==
  LET HasName(metric) == metric.name = name IN SelectSeq(metrics, HasName)

\* intervalMinutes * 60 * 1000
IntervalMs(intervalMinutes) == intervalMinutes * 60 * 1000

\* a bucket key for buckets that are closed at their end: a metric at the
\* end of a bucket stays in it
BucketKeyClosedEnd(metric, firstTime, intervalMs) ==
  IF metric.timestamp = firstTime THEN firstTime
  ELSE firstTime + ((metric.timestamp - firstTime - 1) \div intervalMs) * intervalMs

\* the bucket key of a metric of a series whose first timestamp is firstTime
BucketKey(metric, firstTime, intervalMs) ==
  firstTime + ((metric.timestamp - firstTime) \div intervalMs) * intervalMs

\* an AggregatedMetric that counts the distinct values of the bucket
AggregatedDistinct(name, bucketTime, intervalMs, bucketMetrics) ==
  LET values == [i \in 1..Len(bucketMetrics) |-> bucketMetrics[i].value]
      sum == FSum(values)
      distinct == Cardinality({ values[i] : i \in 1..Len(values) })
  IN [startTime |-> bucketTime, endTime |-> bucketTime + intervalMs,
      name |-> name, count |-> distinct, min |-> FMin(values),
      max |-> FMax(values), avg |-> FDiv(sum, Float(distinct)),
      sum |-> sum, values |-> values]

\* the AggregatedMetric pushed for one bucket
Aggregated(name, bucketTime, intervalMs, bucketMetrics) ==
  LET values == [i \in 1..Len(bucketMetrics) |-> bucketMetrics[i].value]
      sum == FSum(values)
  IN [startTime |-> bucketTime, endTime |-> bucketTime + intervalMs,
      name |-> name, count |-> Len(values), min |-> FMin(values),
      max |-> FMax(values), avg |-> FDiv(sum, Float(Len(values))),
      sum |-> sum, values |-> values]

\* the AggregatedMetrics of one name when a bucket is set to its latest
\* metric in place of being pushed onto
AggregateNameKeepingLast(metrics, name, intervalMs) ==
  LET group == nameMetrics(metrics, name)
      sorted == SortByKey(group, Timestamps(group))
      firstTime == sorted[1].timestamp
      KeyOf(metric) == BucketKey(metric, firstTime, intervalMs)
      buckets == KeysInOrder([i \in 1..Len(sorted) |-> KeyOf(sorted[i])])
  IN [b \in 1..Len(buckets) |->
        LET InBucket(metric) == KeyOf(metric) = buckets[b]
            bucketMetrics == SelectSeq(sorted, InBucket)
        IN Aggregated(name, buckets[b], intervalMs,
                      <<bucketMetrics[Len(bucketMetrics)]>>)]

\* the AggregatedMetrics pushed for one name, in the order of its buckets
AggregateName(metrics, name, intervalMs) ==
  LET group == nameMetrics(metrics, name)
      sorted == SortByKey(group, Timestamps(group))
      firstTime == sorted[1].timestamp
      KeyOf(metric) == BucketKey(metric, firstTime, intervalMs)
      buckets == KeysInOrder([i \in 1..Len(sorted) |-> KeyOf(sorted[i])])
  IN [b \in 1..Len(buckets) |->
        LET InBucket(metric) == KeyOf(metric) = buckets[b]
        IN Aggregated(name, buckets[b], intervalMs, SelectSeq(sorted, InBucket))]

\* transformers.aggregateByInterval(intervalMinutes)(metrics)
aggregateByInterval(intervalMinutes, metrics) ==
  IF Len(metrics) = 0 THEN Returned(<<>>, metrics)
  ELSE LET names == KeysInOrder(Names(metrics))
           result == Flatten([n \in 1..Len(names) |->
                                AggregateName(metrics, names[n],
                                              IntervalMs(intervalMinutes))])
       IN Returned(SortByKey(result, StartTimes(result)), metrics)

\* { ...old, ...added }
Merge(old, added) ==
  [k \in DOMAIN old \cup DOMAIN added |->
     IF k \in DOMAIN added THEN added[k] ELSE old[k]]

\* an average that divides the sum of the window by windowSize
AverageOverWindowSize(window, windowSize) ==
  FDiv(FSum([j \in 1..Len(window) |-> window[j].value]), Float(windowSize))

\* window.reduce((sum, m) => sum + m.value, 0) / window.length
WindowAverage(window, windowSize) ==
  FDiv(FSum([j \in 1..Len(window) |-> window[j].value]), Float(Len(window)))

\* a window that looks ahead: the windowSize entries from i on
WindowAhead(metrics, i, windowSize) ==
  SubSeq(metrics, i,
         IF i + windowSize - 1 < Len(metrics) THEN i + windowSize - 1
         ELSE Len(metrics))

\* metrics.slice(Math.max(0, i - windowSize + 1), i + 1), for the 1-based i
Window(metrics, i, windowSize) ==
  SubSeq(metrics, IF i - windowSize + 1 > 1 THEN i - windowSize + 1 ELSE 1, i)

\* the object movingAverage pushes for the 1-based index i: a new object with
\* the fields of metrics[i], the average as value, and the extended metadata
Smoothed(metrics, i, windowSize) ==
  LET window == Window(metrics, i, windowSize) IN
  [metrics[i] EXCEPT
     !.id = "movingAverage " \o ToString(i),
     !.value = WindowAverage(window, windowSize),
     !.metadata = Merge(@, [originalValue |-> metrics[i].value,
                            windowSize |-> Len(window)])]

\* a movingAverage that stores the averages into the objects of its input
movingAverageInPlace(windowSize, metrics) ==
  IF Len(metrics) = 0 \/ windowSize < 2 THEN Returned(metrics, metrics)
  ELSE LET result == [i \in 1..Len(metrics) |->
                        [metrics[i] EXCEPT
                           !.value = Smoothed(metrics, i, windowSize).value]]
       IN Returned(result, result)

\* transformers.movingAverage(windowSize)(metrics)
movingAverage(windowSize, metrics) ==
  IF Len(metrics) = 0 \/ windowSize < 2 THEN Returned(metrics, metrics)
  ELSE Returned([i \in 1..Len(metrics) |-> Smoothed(metrics, i, windowSize)],
                metrics)

\* transformers.filterByTimeRange(start, end)(metrics), for the getTime() of
\* start and end
filterByTimeRange(startTime, endTime, metrics) ==
  LET InRange(metric) ==
        metric.timestamp >= startTime /\ metric.timestamp <= endTime
  IN Returned(SelectSeq(metrics, InRange), metrics)

\* transformers.filterByName(names)(metrics)
filterByName(names, metrics) ==
  LET nameSet == { names[i] : i \in 1..Len(names) }
      Named(metric) == metric.name \in nameSet
  IN Returned(SelectSeq(metrics, Named), metrics)

\* the series of a chart: one for each name of the points, in the order of
\* the names' first points, each with its points sorted by x
ChartSeries(names, points) ==
  LET keys == KeysInOrder(names) IN
  [n \in 1..Len(keys) |->
     LET OfName(i) == names[i] = keys[n]
         own == { i \in 1..Len(points) : OfName(i) }
         data == Pick(points, { i - 1 : i \in own })
     IN [name |-> keys[n],
         data |-> SortByKey(data, [i \in 1..Len(data) |-> data[i].x])]]

\* transformers.formatForChart(options)(metrics)
formatForChart(options, metrics) ==
  LET points == [i \in 1..Len(metrics) |->
                   [x |-> metrics[i].timestamp, y |-> metrics[i].value,
                    label |-> "Step " \o ToString(metrics[i].step)]]
      grouped == ChartSeries(Names(metrics), points)
      series == [n \in 1..Len(grouped) |->
                   [name |-> grouped[n].name, data |-> grouped[n].data,
                    color |-> Get(options, "color")]]
  IN Returned([type |-> OrElse(Get(options, "chartType"), Str("line")),
               title |-> OrElse(Get(options, "title"), Str("Metrics Over Time")),
               series |-> series,
               xAxis |-> [type |-> "time", label |-> "Time"],
               yAxis |-> [label |-> "Value"]],
              metrics)

\* transformers.formatAggregatedForChart(options)(aggregated)
formatAggregatedForChart(options, aggregated) ==
  LET useAverage == Truthy(Get(options, "useAverage"))
      points == [i \in 1..Len(aggregated) |->
                   [x |-> aggregated[i].startTime,
                    y |-> IF useAverage THEN aggregated[i].avg
                          ELSE aggregated[i].sum,
                    label |-> ToString(aggregated[i].count) \o " samples"]]
  IN Returned([type |-> OrElse(Get(options, "chartType"), Str("line")),
               title |-> OrElse(Get(options, "title"), Str("Aggregated Metrics")),
               series |-> ChartSeries(Names(aggregated), points),
               xAxis |-> [type |-> "time", label |-> "Time"],
               yAxis |-> [label |-> IF useAverage THEN "Average Value"
                                    ELSE "Sum"]],
              aggregated)

\* transformers.enrichWithMetadata()(metrics), once its timer has fired, with
\* now the new Date().toISOString() of that moment
enrichWithMetadata(now, metrics) ==
  Returned([i \in 1..Len(metrics) |->
              [metrics[i] EXCEPT
                 !.id = "enrichWithMetadata " \o ToString(i),
                 !.metadata = Merge(@, [enriched |-> TRUE,
                                        processedAt |-> now])]],
           metrics)

\* the arrays of AggregatedMetric passed to formatAggregatedForChart
AggregatedArrays ==
  { aggregateByInterval(intervalMinutes, array).output :
      intervalMinutes \in 1..2,
      array \in ArraysOf(MetricPool, MaxSamples - 1) \cup {Series(MaxMetrics)} }

\* the [start, end] pairs passed to filterByTimeRange
TimeRanges == { <<0, 90000>>, <<90000, 150000>>, <<120000, 0>> }

\* the names arrays passed to filterByName
NameLists == { <<>>, <<"loss">>, <<"acc", "loss">>, <<"lr">> }

\* the options passed to formatForChart and formatAggregatedForChart
ChartOptions ==
  { Undefined,
    Obj([chartType |-> Str("bar"), title |-> Str(""), color |-> Str("red")]),
    Obj([title |-> Str("Loss"), useAverage |-> Bool(TRUE)]) }

\* the readings of the clock
Clock == { "2026-01-01T00:00:00.000Z", "2026-01-01T00:00:00.100Z" }

\* an array of RawMetric
IsRawMetrics(array) ==
  \A i \in 1..Len(array) : "timestamp" \in DOMAIN array[i]

\* an array of AggregatedMetric
IsAggregatedMetrics(array) ==
  \A i \in 1..Len(array) : "startTime" \in DOMAIN array[i]

(***************************************************************************)
(* The metric parser (src/src/problems/problem1.ts).  The strings of the   *)
(* model are few, so Number(s), new Date(s) and s.includes('T') are        *)
(* tables on them.                                                         *)
(***************************************************************************)
\* the number NaN
NaN == [k |-> "number", nan |-> TRUE]
\* isNaN(v) of a number
IsNaN(v) == "nan" \in DOMAIN v
\* Number(s) of a string: blank strings are 0, numerals their number, and
\* every other string NaN
StringToNumber(s) ==
  CASE Trim(s) = "" -> Num(0)
    [] s = "75" -> Num(75)
    [] s = "12.5" -> HalfNum(25)
    [] OTHER -> NaN
\* the strings new Date(s) reads as a date
DateStrings == { "2025-10-27T10:00:00Z", "2025-10-27T11:00:00Z", "2025-10-27" }
\* the strings that contain the letter T
StringsWithT == { "2025-10-27T10:00:00Z", "TBD" }

isValidNumber(value) ==
  \/ TypeofNumber(value) /\ ~IsNaN(value)
  \/ TypeofString(value) /\ ~IsNaN(StringToNumber(value.s))

toNumber(value) ==
  IF TypeofNumber(value) THEN value ELSE StringToNumber(value.s)

isValidTimestamp(timestamp) ==
  /\ TypeofString(timestamp)
  /\ timestamp.s \in DateStrings
  /\ timestamp.s \in StringsWithT

\* errors.push({index, reason})
PushError(result, index, reason) ==
  [result EXCEPT !.errors = Append(@, [index |-> index, reason |-> reason])]

\* the object pushed onto valid: the four required fields, the value as a
\* number, and unit when it is a string
MetricDataOf(data) ==
  LET required == [id |-> Get(data, "id"), name |-> Get(data, "name"),
                   value |-> toNumber(Get(data, "value")),
                   timestamp |-> Get(data, "timestamp")]
  IN IF Get(data, "unit") # Undefined /\ TypeofString(Get(data, "unit"))
     THEN Obj([id |-> required.id, name |-> required.name,
               value |-> required.value, timestamp |-> required.timestamp,
               unit |-> Get(data, "unit")])
     ELSE Obj(required)

\* a blank or non-string field
IsBlank(v) == ~TypeofString(v) \/ Trim(v.s) = ""

\* the checks of the callback, in the order of the code, each with its reason
FieldChecks(data) ==
  << [fails |-> IsBlank(Get(data, "id")),
      reason |-> "Missing or invalid required field: id"],
     [fails |-> IsBlank(Get(data, "name")),
      reason |-> "Missing or invalid required field: name"],
     [fails |-> ~isValidNumber(Get(data, "value")),
      reason |-> "Missing or invalid required field: value (must be a number)"],
     [fails |-> ~isValidTimestamp(Get(data, "timestamp")),
      reason |-> "Missing or invalid required field: timestamp (must be valid ISO 8601 format)"] >>

\* the indices of the checks that fail
Failing(data) == { c \in 1..4 : FieldChecks(data)[c].fails }

RECURSIVE PushAllErrors(_, _, _, _)
PushAllErrors(result, index, data, c) ==
  IF c > 4 THEN result
  ELSE PushAllErrors(IF FieldChecks(data)[c].fails
                     THEN PushError(result, index, FieldChecks(data)[c].reason)
                     ELSE result,
                     index, data, c + 1)

\* a callback that goes on to the next check after a failure
VisitCollectingAll(result, item, index) ==
  IF ~TypeofObject(item) \/ item = Null
  THEN PushError(result, index, "Item is not an object")
  ELSE IF Failing(item) # {}
       THEN PushAllErrors(result, index, item, 1)
       ELSE [result EXCEPT !.valid = Append(@, MetricDataOf(item))]

\* the callback of jsonData.forEach: the first failing check pushes one error
\* and returns; an item that passes them all is pushed onto valid
Visit(result, item, index) ==
  IF ~TypeofObject(item) \/ item = Null
  THEN PushError(result, index, "Item is not an object")
  ELSE IF Failing(item) # {}
       THEN PushError(result, index,
                      FieldChecks(item)[CHOOSE c \in Failing(item) :
                                          \A d \in Failing(item) : c <= d].reason)
       ELSE [result EXCEPT !.valid = Append(@, MetricDataOf(item))]

RECURSIVE ForEach(_, _, _)
ForEach(jsonData, i, result) ==
  IF i > Len(jsonData) THEN result
  ELSE ForEach(jsonData, i + 1, Visit(result, jsonData[i], i - 1))

parseMetrics(jsonData) ==
  ForEach(jsonData, 1, [valid |-> <<>>, errors |-> <<>>])

\* the items of the arrays passed to parseMetrics
GoodTime == Str("2025-10-27T10:00:00Z")
JsonItems ==
  { Obj([id |-> Str("gpu-1"), name |-> Str("GPU Utilization"),
         value |-> HalfNum(171), timestamp |-> GoodTime]),
    Obj([id |-> Str("gpu-2"), name |-> Str("GPU Temperature"),
         value |-> Str("75"), timestamp |-> Str("invalid-date")]),
    Obj([id |-> Str("gpu-3"), value |-> Num(90)]),
    Obj([id |-> Str("gpu-4"), name |-> Str("GPU Memory"),
         value |-> Str("12.5"), timestamp |-> GoodTime, unit |-> Str("GB")]),
    Obj([id |-> Str("gpu-5"), name |-> Str("GPU Power"),
         value |-> Str(""), timestamp |-> GoodTime, unit |-> Num(1)]),
    Obj([id |-> Str(" "), name |-> Str(""), value |-> Str("abc"),
         timestamp |-> Str("2025-10-27")]),
    Obj([id |-> Str("gpu-6"), name |-> Str("GPU Clock"),
         value |-> NaN, timestamp |-> Str("TBD")]),
    Obj([id |-> Num(7), name |-> Str("GPU Fan"),
         value |-> Null, timestamp |-> GoodTime]),
    Arr(<<>>), Null, Str("gpu-8"), Num(9) }

\* the arrays passed to parseMetrics
JsonArrays ==
  UNION { [1..n -> JsonItems] : n \in 0..MaxJson }

(***************************************************************************)
(* The API client (src/src/problems/problem3.ts).  A get call is followed  *)
(* from await to await: it waits for the fetch, then for response.json(),  *)
(* or for the delay before the next attempt.  Besides the state of the     *)
(* call the record keeps what happened: the outcome of each attempt, the   *)
(* response of the last fetch, the delays waited, and what get returned to *)
(* getExperiments/getExperiment.                                           *)
(***************************************************************************)
\* the value of an integer number
NumberOf(v) == v.half \div 2

\* new ApiClient(config), for a string or an ApiClientConfig
NewApiClient(config) ==
  IF TypeofString(config)
  THEN [baseUrl |-> config.s, maxRetries |-> 3, retryDelay |-> 1000,
        timeout |-> 10000]
  ELSE [baseUrl |-> Get(config, "baseUrl").s,
        maxRetries |-> NumberOf(NullishElse(Get(config, "maxRetries"), Num(3))),
        retryDelay |-> NumberOf(NullishElse(Get(config, "retryDelay"), Num(1000))),
        timeout |-> NumberOf(NullishElse(Get(config, "timeout"), Num(10000)))]

\* new Date(value): the date of a date string, otherwise an invalid date
NewDate(value) ==
  IF TypeofString(value) /\ value.s \in DateStrings
  THEN [k |-> "date", time |-> value.s]
  ELSE [k |-> "date", time |-> "Invalid Date"]

\* the ApiResponse of a response that is not ok
HttpError(response) ==
  [success |-> FALSE,
   error |-> [code |-> "HTTP_ERROR",
              message |-> "HTTP " \o ToString(response.status) \o ": "
                            \o response.statusText,
              statusCode |-> response.status]]

\* the ApiResponse of a failure caught when no retry is left
NetworkError(error) ==
  [success |-> FALSE,
   error |-> [code |-> "NETWORK_ERROR",
              message |-> IF error.isError THEN error.message
                          ELSE "Unknown error occurred",
              details |-> error]]

\* the ApiResponse of a parsed body
Success(data) == [success |-> TRUE, data |-> data]

\* { ...exp, createdAt: new Date(exp.createdAt), updatedAt: new Date(exp.updatedAt) }
WithDates(exp) ==
  Obj(Merge(exp.f, [createdAt |-> NewDate(Get(exp, "createdAt")),
                    updatedAt |-> NewDate(Get(exp, "updatedAt"))]))

\* what getExperiments does with the response of get: a failure is returned
\* as it is, and reading experiments of a body that has none throws
getExperimentsAfterGet(response) ==
  IF ~response.success THEN response
  ELSE IF ~IsArray(Get(response.data, "experiments"))
  THEN ThrowError("Cannot read properties of undefined (reading 'map')")
  ELSE LET experiments == Get(response.data, "experiments").items IN
       Success(Obj([experiments |->
                      Arr([i \in 1..Len(experiments) |-> WithDates(experiments[i])]),
                    total |-> Get(response.data, "total"),
                    page |-> Get(response.data, "page")]))

\* what getExperiment does with the response of get
getExperimentAfterGet(response) ==
  IF ~response.success THEN response
  ELSE IF response.data = Null
  THEN ThrowError("Cannot read properties of null (reading 'createdAt')")
  ELSE Success(WithDates(response.data))

\* the call ends: get returns response, and the method that called get goes
\* on with it
Return(call, response) ==
  LET completion ==
        CASE call.method = "getExperiments" -> getExperimentsAfterGet(response)
          [] call.method = "getExperiment" -> getExperimentAfterGet(response)
          [] OTHER -> response
  IN [call EXCEPT !.at = "done", !.inner = response,
                  !.status = IF IsThrow(completion) THEN "rejected" ELSE "resolved",
                  !.result = completion]

\* the outcome of the attempt under way
Attempted(call, outcome) ==
  [call EXCEPT !.attempts[Len(call.attempts)] = outcome]

\* a catch block that retries while retries is not negative
CatchWhileNotNegative(this, call, error) ==
  IF call.retries >= 0
  THEN [Attempted(call, "threw") EXCEPT !.at = "delay",
                                        !.delays = Append(@, this.retryDelay)]
  ELSE Return(Attempted(call, "threw"), NetworkError(error))

\* the catch block of get: with retries left it starts the delay, without it
\* returns the NETWORK_ERROR response
Catch(this, call, error) ==
  IF call.retries > 0
  THEN [Attempted(call, "threw") EXCEPT !.at = "delay",
                                        !.delays = Append(@, this.retryDelay)]
  ELSE Return(Attempted(call, "threw"), NetworkError(error))

\* a get that throws on a response that is not ok, and so retries it
OnResponseThrowingHttp(this, call, response) ==
  IF ~response.ok
  THEN Catch(this, call, ThrowError("HTTP " \o ToString(response.status)))
  ELSE [call EXCEPT !.at = "json"]

\* get after await mockFetch(url): a response that is not ok is returned as
\* HTTP_ERROR, one that is ok is parsed
OnResponse(this, call, response) ==
  IF ~response.ok
  THEN Return(Attempted(call, "http"), HttpError(response))
  ELSE [call EXCEPT !.at = "json"]

\* get after the fetch settled: with a response, or with a rejection, which
\* the catch block gets
OnFetchSettled(this, call, outcome) ==
  IF IsThrow(outcome) THEN Catch(this, call, outcome)
  ELSE OnResponse(this, [call EXCEPT !.response = outcome], outcome)

\* get after response.json() settled
OnJsonSettled(this, call, outcome) ==
  IF IsThrow(outcome) THEN Catch(this, call, outcome)
  ELSE Return(Attempted(call, "success"), Success(outcome))

\* get after the delay: this.get(endpoint, retries - 1), which fetches again
OnDelayElapsed(call) ==
  [call EXCEPT !.at = "fetch", !.retries = @ - 1, !.response = Undefined,
               !.attempts = Append(@, "pending")]

\* this.get(endpoint), this.getExperiments(page) or this.getExperiment(id),
\* up to the await of the first fetch
NewCall(this, method, endpoint) ==
  [method |-> method, url |-> this.baseUrl \o endpoint,
   retries |-> this.maxRetries, at |-> "fetch", response |-> Undefined,
   attempts |-> <<"pending">>, delays |-> <<>>,
   inner |-> Undefined, status |-> "pending", result |-> Undefined]

\* the endpoint each method passes to get
EndpointOf(method) ==
  CASE method = "getExperiments" -> "/experiments?page=1"
    [] method = "getExperiment" -> "/experiments/exp-1"
    [] OTHER -> "/unknown"

Methods == {"get", "getExperiments", "getExperiment"}

\* the bodies of the responses
RawExperiment(id, createdAt) ==
  Obj([id |-> Str(id), name |-> Str("Training Run"), status |-> Str("running"),
       createdAt |-> Str(createdAt), updatedAt |-> Str("2025-10-27T11:00:00Z")])
Bodies ==
  { Obj([experiments |-> Arr(<<RawExperiment("exp-1", "2025-10-27T10:00:00Z"),
                               RawExperiment("exp-2", "yesterday")>>),
         total |-> Num(2), page |-> Num(1)]),
    RawExperiment("exp-1", "2025-10-27T10:00:00Z"),
    Obj([error |-> Str("Endpoint not found")]),
    Null }

\* the ways a fetch settles: a response that is ok, one that is not, or a
\* rejection with an Error or with another value
Responses ==
  { [ok |-> TRUE, status |-> 200, statusText |-> "OK"],
    [ok |-> FALSE, status |-> 404, statusText |-> "Not Found"],
    [ok |-> FALSE, status |-> 500, statusText |-> "Internal Server Error"] }
Rejections ==
  { ThrowError("Network connection failed"), ThrowValue("aborted") }

\* the configurations passed to the constructor
ClientConfigs ==
  { Str("https://api.example.com") }
    \cup { Obj([baseUrl |-> Str("https://api.example.com"),
                maxRetries |-> r, retryDelay |-> d]) :
             r \in { Num(n) : n \in -1..MaxRetries } \cup {Undefined, Null},
             d \in { Undefined, Num(0), Num(250) } }

(***************************************************************************)
(* The renderer as a state machine: one ComponentRenderer instance, whose  *)
(* only field is the registry, and a caller that holds a configuration,    *)
(* registers validators and calls render.                                  *)
(*   registry    this.registry                                             *)
(*   config      the value the caller passes to render                     *)
(*   registered  for each kind the caller registered, the validator of its *)
(*               latest registerComponent call (the caller's own record)   *)
(*   lastRender  the last render call: its argument, the registry and the  *)
(*               caller's record at the call, what it returned, and how    *)
(*               many render calls were made so far                        *)
(***************************************************************************)
VARIABLES registry, config, registered, lastRender

(***************************************************************************)
(* The pipelines as a state machine: the TransformPipeline instances and   *)
(* the execute calls in flight or ended.                                   *)
(*   pipelines   the instances, in the order of their creation             *)
(*   derived     for each instance, the pipe call that made it: the        *)
(*               receiver, the transformer, and the receiver's transformers*)
(*               as the caller saw them at the call                        *)
(*   executions  the execute calls, each at its await or ended             *)
(***************************************************************************)
VARIABLES pipelines, derived, executions

(***************************************************************************)
(* The library of transformers, applied by a caller to an array of         *)
(* metrics.                                                                *)
(*   metrics     the array the caller holds and passes to a transformer    *)
(*   applied     the last call of a library transformer: its name and      *)
(*               parameter, the array as it was before the call and as it  *)
(*               is after it, and what the transformer returned            *)
(***************************************************************************)
VARIABLES metrics, applied

(***************************************************************************)
(* The parser, called by a caller on an array of untyped items.            *)
(*   jsonData    the array the caller holds and passes to parseMetrics     *)
(*   parsed      the last parseMetrics call: its argument and its result   *)
(***************************************************************************)
VARIABLES jsonData, parsed

(***************************************************************************)
(* The API client: one ApiClient instance and the calls made on it.        *)
(*   client      the fields of the instance, set by the constructor        *)
(*   requests    the calls of get, getExperiments and getExperiment, each  *)
(*               at an await or ended                                      *)
(***************************************************************************)
VARIABLES client, requests

rendererVars == <<registry, config, registered, lastRender>>
pipelineVars == <<pipelines, derived, executions>>
libraryVars == <<metrics, applied>>
parserVars == <<jsonData, parsed>>
apiVars == <<client, requests>>
vars == <<rendererVars, pipelineVars, libraryVars, parserVars, apiVars>>

NoRender == [called |-> FALSE, calls |-> 0]

\* no library transformer called yet, on an empty array
NoLibraryCall ==
  /\ metrics = <<>>
  /\ applied = [called |-> FALSE]

\* a client with the default fields, and no call made on it
NoRequests ==
  /\ client = NewApiClient(Str(""))
  /\ requests = <<>>

\* no parseMetrics call made yet, on an empty array
NoParse ==
  /\ jsonData = <<>>
  /\ parsed = [called |-> FALSE]

\* no pipe or execute call made yet: one empty pipeline
NoPipelines ==
  /\ pipelines = <<NewPipeline>>
  /\ derived = <<[from |-> 0, transformer |-> "", seen |-> <<>>]>>
  /\ executions = <<>>

\* new ComponentRenderer(), and the caller's configuration
Init ==
  /\ registry = DefaultRegistry
  /\ config \in Configs
  /\ registered = <<>>
  /\ lastRender = NoRender
  /\ NoPipelines
  /\ NoLibraryCall
  /\ NoParse
  /\ NoRequests

\* renderer.registerComponent(type, validator)
RegisterCall(type, v) ==
  /\ registry' = registerComponent(registry, type, v)
  /\ registered' = [t \in DOMAIN registered \cup {type} |->
                      IF t = type THEN v ELSE registered[t]]
  /\ UNCHANGED <<config, lastRender, pipelineVars, libraryVars, parserVars, apiVars>>

\* a render that appends to the errors list of the call before it
RenderCallKeepingErrors ==
  /\ lastRender.calls < MaxRenders
  /\ LET fresh == render(registry, config)
         kept == IF lastRender.called /\ ~IsThrow(lastRender.output)
                 THEN lastRender.output.errors ELSE <<>>
     IN lastRender' = [called |-> TRUE, calls |-> lastRender.calls + 1,
                       config |-> config, registry |-> registry,
                       registered |-> registered,
                       output |-> IF IsThrow(fresh) THEN fresh
                                  ELSE [fresh EXCEPT !.errors = kept \o @]]
  /\ UNCHANGED <<registry, config, registered, pipelineVars, libraryVars, parserVars, apiVars>>

\* renderer.render(config)
RenderCall ==
  /\ lastRender.calls < MaxRenders
  /\ lastRender' = [called |-> TRUE, calls |-> lastRender.calls + 1,
                    config |-> config, registry |-> registry,
                    registered |-> registered,
                    output |-> render(registry, config)]
  /\ UNCHANGED <<registry, config, registered, pipelineVars, libraryVars, parserVars, apiVars>>

Next ==
  \/ \E r \in Registrations : RegisterCall(r[1], r[2])
  \/ RenderCall

Spec == Init /\ [][Next]_vars

\* new TransformPipeline(), beside a renderer that is not used
InitPipeline ==
  /\ registry = DefaultRegistry
  /\ config = Undefined
  /\ registered = <<>>
  /\ lastRender = NoRender
  /\ NoPipelines
  /\ NoLibraryCall
  /\ NoParse
  /\ NoRequests

\* a pipe call that pushes onto the receiver
PipeCallInPlace(this, transformer) ==
  /\ Len(pipelines) < MaxPipelines
  /\ pipelines' = pipeInPlace(pipelines, this, transformer)
  /\ derived' = Append(derived, [from |-> this, transformer |-> transformer,
                                 seen |-> pipelines[this].transformers])
  /\ UNCHANGED <<executions, rendererVars, libraryVars, parserVars, apiVars>>

\* pipelines[this].pipe(transformer)
PipeCall(this, transformer) ==
  /\ Len(pipelines) < MaxPipelines
  /\ pipelines' = pipe(pipelines, this, transformer)
  /\ derived' = Append(derived, [from |-> this, transformer |-> transformer,
                                 seen |-> pipelines[this].transformers])
  /\ UNCHANGED <<executions, rendererVars, libraryVars, parserVars, apiVars>>

\* the execute calls that have not ended
InFlight == { x \in DOMAIN executions :
                executions[x].call.status \in {"pending", "awaiting"} }

\* pipelines[this].execute(input), up to its first await; the call is
\* recorded with the calls that are in flight when it is made
ExecuteCall(this, input) ==
  /\ Len(executions) < MaxExecutions
  /\ executions' = Append(executions,
                          [call |-> execute(pipelines, this, input),
                           during |-> InFlight])
  /\ UNCHANGED <<pipelines, derived, rendererVars, libraryVars, parserVars, apiVars>>

\* the timer of the async transformer that execute call x waits for fires,
\* and its promise settles
ExecuteSettle(x) ==
  /\ executions[x].call.status = "pending"
  /\ executions' = [executions EXCEPT
                      ![x].call = settle(pipelines, executions[x].call)]
  /\ UNCHANGED <<pipelines, derived, rendererVars, libraryVars, parserVars, apiVars>>

\* an execute that keeps its step counter on the pipeline instance: when the
\* call x goes on, the calls in flight on the same instance go on from x's step
ExecuteResumeSharedStep(x) ==
  /\ executions[x].call.status = "awaiting"
  /\ LET resumed == resume(pipelines, executions[x].call) IN
     executions' = [y \in DOMAIN executions |->
                      IF y = x THEN [executions[y] EXCEPT !.call = resumed]
                      ELSE IF /\ y \in InFlight
                              /\ executions[y].call.pipeline = resumed.pipeline
                      THEN [executions[y] EXCEPT !.call.i = resumed.i]
                      ELSE executions[y]]
  /\ UNCHANGED <<pipelines, derived, rendererVars, libraryVars, parserVars, apiVars>>

\* the await of execute call x ends and the call runs to its next await
ExecuteResume(x) ==
  /\ executions[x].call.status = "awaiting"
  /\ executions' = [executions EXCEPT
                      ![x].call = resume(pipelines, executions[x].call)]
  /\ UNCHANGED <<pipelines, derived, rendererVars, libraryVars, parserVars, apiVars>>

\* pipe and execute calls in any order, with transformers that are not async
NextPipeline ==
  \/ \E this \in DOMAIN pipelines, t \in SyncTransformers : PipeCall(this, t)
  \/ \E this \in DOMAIN pipelines, input \in Inputs : ExecuteCall(this, input)
  \/ \E x \in DOMAIN executions : ExecuteResume(x)

SpecPipeline == InitPipeline /\ [][NextPipeline]_vars

\* the instances a caller has after new TransformPipeline() and one pipe call
\* per stage, each on the instance the call before returned
RECURSIVE Chain(_)
Chain(stages) ==
  IF stages = <<>> THEN <<NewPipeline>>
  ELSE LET front == Chain(SubSeq(stages, 1, Len(stages) - 1))
       IN pipe(front, Len(front), stages[Len(stages)])

\* the sequences of MaxStages transformers
StageLists == [1..MaxStages -> Transformers]

\* a caller that has built a chain of pipelines and makes no pipe call after
InitExecute ==
  /\ registry = DefaultRegistry
  /\ config = Undefined
  /\ registered = <<>>
  /\ lastRender = NoRender
  /\ NoLibraryCall
  /\ NoParse
  /\ NoRequests
  /\ \E stages \in StageLists :
       /\ pipelines = Chain(stages)
       /\ derived = [q \in 1..(MaxStages + 1) |->
                       IF q = 1 THEN [from |-> 0, transformer |-> "", seen |-> <<>>]
                       ELSE [from |-> q - 1, transformer |-> stages[q - 1],
                             seen |-> SubSeq(stages, 1, q - 2)]]
  /\ executions = <<>>

\* execute calls on the pipelines of the chain, each call going on when its
\* await ends, in any interleaving
NextExecute ==
  \/ \E this \in DOMAIN pipelines, input \in Inputs : ExecuteCall(this, input)
  \/ \E x \in DOMAIN executions : ExecuteSettle(x)
  \/ \E x \in DOMAIN executions : ExecuteResume(x)

SpecExecute == InitExecute /\ [][NextExecute]_vars

\* the transformer call the caller made last: the array before the call, the
\* array after it, and what the call returned
Application(name, parameter, result) ==
  [called |-> TRUE, name |-> name, parameter |-> parameter,
   before |-> metrics, after |-> result.input, output |-> result.output]

\* a caller that holds an array of metrics and calls one transformer on it,
\* beside a renderer and a pipeline that are not used
InitLibrary ==
  /\ registry = DefaultRegistry
  /\ config = Undefined
  /\ registered = <<>>
  /\ lastRender = NoRender
  /\ NoPipelines
  /\ metrics \in MetricArrays \cup AggregatedArrays
  /\ applied = [called |-> FALSE]
  /\ NoParse
  /\ NoRequests

\* the caller calls a transformer: applied records the call, and metrics is
\* the caller's array as the call leaves it
Call(name, parameter, result) ==
  /\ ~applied.called
  /\ applied' = Application(name, parameter, result)
  /\ metrics' = result.input
  /\ UNCHANGED <<rendererVars, pipelineVars, parserVars, apiVars>>

\* transformers.filterByTimeRange(start, end)(metrics)
FilterByTimeRangeCall(range) ==
  /\ IsRawMetrics(metrics)
  /\ Call("filterByTimeRange", range,
          filterByTimeRange(range[1], range[2], metrics))

\* transformers.filterByName(names)(metrics)
FilterByNameCall(names) ==
  /\ IsRawMetrics(metrics)
  /\ Call("filterByName", names, filterByName(names, metrics))

\* transformers.sampleMetrics(maxPoints)(metrics)
SampleCall(maxPoints) ==
  /\ IsRawMetrics(metrics)
  /\ Call("sampleMetrics", maxPoints, sampleMetrics(maxPoints, metrics))

\* transformers.aggregateByInterval(intervalMinutes)(metrics)
AggregateCall(intervalMinutes) ==
  /\ IsRawMetrics(metrics)
  /\ Call("aggregateByInterval", intervalMinutes,
          aggregateByInterval(intervalMinutes, metrics))

\* transformers.movingAverage(windowSize)(metrics)
MovingAverageCall(windowSize) ==
  /\ IsRawMetrics(metrics)
  /\ Call("movingAverage", windowSize, movingAverage(windowSize, metrics))

\* transformers.formatForChart(options)(metrics)
FormatForChartCall(options) ==
  /\ IsRawMetrics(metrics)
  /\ Call("formatForChart", options, formatForChart(options, metrics))

\* transformers.formatAggregatedForChart(options)(metrics)
FormatAggregatedForChartCall(options) ==
  /\ IsAggregatedMetrics(metrics)
  /\ Call("formatAggregatedForChart", options,
          formatAggregatedForChart(options, metrics))

\* await transformers.enrichWithMetadata()(metrics)
EnrichCall(now) ==
  /\ IsRawMetrics(metrics)
  /\ Call("enrichWithMetadata", now, enrichWithMetadata(now, metrics))

NextLibrary ==
  \/ \E range \in TimeRanges : FilterByTimeRangeCall(range)
  \/ \E names \in NameLists : FilterByNameCall(names)
  \/ \E maxPoints \in 0..MaxParameter : SampleCall(maxPoints)
  \/ \E intervalMinutes \in 1..2 : AggregateCall(intervalMinutes)
  \/ \E windowSize \in 0..MaxParameter : MovingAverageCall(windowSize)
  \/ \E options \in ChartOptions : FormatForChartCall(options)
  \/ \E options \in ChartOptions : FormatAggregatedForChartCall(options)
  \/ \E now \in Clock : EnrichCall(now)

SpecLibrary == InitLibrary /\ [][NextLibrary]_vars

\* a caller that holds an array of items and calls parseMetrics on it, beside
\* a renderer, a pipeline and a library that are not used
InitParser ==
  /\ registry = DefaultRegistry
  /\ config = Undefined
  /\ registered = <<>>
  /\ lastRender = NoRender
  /\ NoPipelines
  /\ NoLibraryCall
  /\ jsonData \in JsonArrays
  /\ parsed = [called |-> FALSE]
  /\ NoRequests

\* parseMetrics(jsonData): forEach reads the array and leaves it as it is
ParseCall ==
  /\ ~parsed.called
  /\ parsed' = [called |-> TRUE, input |-> jsonData,
                result |-> parseMetrics(jsonData)]
  /\ UNCHANGED <<jsonData, rendererVars, pipelineVars, libraryVars, apiVars>>

NextParser == ParseCall

SpecParser == InitParser /\ [][NextParser]_vars

\* new ApiClient(config), beside a renderer, a pipeline, a library and a
\* parser that are not used
InitApi ==
  /\ registry = DefaultRegistry
  /\ config = Undefined
  /\ registered = <<>>
  /\ lastRender = NoRender
  /\ NoPipelines
  /\ NoLibraryCall
  /\ NoParse
  /\ \E c \in ClientConfigs : client = NewApiClient(c)
  /\ requests = <<>>

\* the actions of the client leave the rest as it is
ClientOnly == UNCHANGED <<client, rendererVars, pipelineVars, libraryVars, parserVars>>

\* a call of get, getExperiments or getExperiment
RequestCall(method) ==
  /\ Len(requests) < MaxRequests
  /\ requests' = Append(requests, NewCall(client, method, EndpointOf(method)))
  /\ ClientOnly

\* the fetch of call x settles, and the call goes on to its next await or
\* to its end
FetchSettle(x, outcome) ==
  /\ requests[x].at = "fetch"
  /\ requests' = [requests EXCEPT ![x] = OnFetchSettled(client, @, outcome)]
  /\ ClientOnly

\* response.json() of call x settles
JsonSettle(x, outcome) ==
  /\ requests[x].at = "json"
  /\ requests' = [requests EXCEPT ![x] = OnJsonSettled(client, @, outcome)]
  /\ ClientOnly

\* the timer of the delay of call x fires
DelayElapse(x) ==
  /\ requests[x].at = "delay"
  /\ requests' = [requests EXCEPT ![x] = OnDelayElapsed(@)]
  /\ ClientOnly

\* a call goes on when what it awaits settles
Settle ==
  \/ \E x \in DOMAIN requests, outcome \in Responses \cup Rejections :
       FetchSettle(x, outcome)
  \/ \E x \in DOMAIN requests,
        outcome \in Bodies \cup {ThrowError("Unexpected end of JSON input")} :
       JsonSettle(x, outcome)
  \/ \E x \in DOMAIN requests : DelayElapse(x)

NextApi ==
  \/ \E method \in Methods : RequestCall(method)
  \/ Settle

SpecApi == InitApi /\ [][NextApi]_vars

\* every fetch and every response.json() settles and every timer fires
SpecApiFair == SpecApi /\ WF_vars(Settle)

(***************************************************************************)
(* Properties of the renderer.  They are stated on the last render call:   *)
(* its argument cfg, the registry reg it ran with, and its result out.     *)
(***************************************************************************)
cfg == lastRender.config
reg == lastRender.registry
out == lastRender.output

\* a configuration render accepts: an object with a string screen and an
\* array components
IsScreenConfig(c) ==
  /\ c.k = "object"
  /\ "screen" \in DOMAIN c.f /\ c.f.screen.k = "string"
  /\ "components" \in DOMAIN c.f /\ c.f.components.k = "array"

\* the entries of the components array of cfg
Components == cfg.f.components.items

\* a node that is an object with a string type field
HasType(node) ==
  node.k = "object" /\ "type" \in DOMAIN node.f /\ node.f.type.k = "string"

TypeOf(node) == node.f.type.s

\* the message the try/catch reports for each validator that throws
ThrownMessage(v) == IF v = "throwsError" THEN "boom" ELSE "oops"

\* a RenderOutput: a screen, a components list of render results, an errors list
IsRenderOutput(o) ==
  /\ DOMAIN o = {"screen", "components", "errors"}
  /\ \A i \in 1..Len(o.components) :
       /\ "isValid" \in DOMAIN o.components[i]
       /\ o.components[i].isValid \in BOOLEAN

RECURSIVE FailureReasons(_, _)
FailureReasons(r, node) ==
  LET result == renderComponent(r, node) IN
  IF ~result.isValid THEN <<result.error>>
  ELSE IF r[TypeOf(node)] \in {"grid", "list"}
  THEN Flatten([j \in 1..Len(node.f.items.items) |->
                  FailureReasons(r, node.f.items.items[j])])
  ELSE <<>>

RECURSIVE IsSubsequence(_, _)
IsSubsequence(a, b) ==
  IF a = <<>> THEN TRUE
  ELSE IF b = <<>> THEN FALSE
  ELSE IF Head(a) = Head(b) THEN IsSubsequence(Tail(a), Tail(b))
  ELSE IsSubsequence(a, Tail(b))

\* C2: the errors list of render's output contains, in document order, the
\* reason of every failed node at any nesting depth, the dropped children of
\* rendered grid and list nodes included.
NestedFailuresReported ==
  (lastRender.called /\ IsScreenConfig(cfg)) =>
    IsSubsequence(Flatten([i \in 1..Len(Components) |->
                             FailureReasons(reg, Components[i])]),
                  out.errors)

\* C3: the output components has the length of the input components, entry i
\* is the single-node render of input entry i alone (failures stay in place),
\* and the output screen is the input screen.
ComponentsKeepOrder ==
  (lastRender.called /\ IsScreenConfig(cfg)) =>
    /\ ~IsThrow(out)
    /\ out.screen = cfg.f.screen.s
    /\ Len(out.components) = Len(Components)
    /\ \A i \in 1..Len(Components) :
         out.components[i] = renderComponent(reg, Components[i])

\* a render call on two components of which the first failed and the second
\* was rendered
FailureKeptInPlace ==
  /\ lastRender.called
  /\ IsScreenConfig(cfg)
  /\ Len(Components) = 2
  /\ ~out.components[1].isValid
  /\ out.components[2].isValid

\* C4: a configuration that is no object, or has no string screen, or has no
\* array components yields an empty components list and exactly one error,
\* and render does not throw.
InvalidConfigRejected ==
  (lastRender.called /\ ~IsScreenConfig(cfg)) =>
    /\ ~IsThrow(out)
    /\ out.components = <<>>
    /\ Len(out.errors) = 1

\* a render call on an object with a screen whose components is no array
ComponentsNotArrayRendered ==
  /\ lastRender.called
  /\ cfg.k = "object"
  /\ "screen" \in DOMAIN cfg.f /\ cfg.f.screen.k = "string"
  /\ "components" \in DOMAIN cfg.f /\ cfg.f.components.k # "array"

\* the entries of a sequence
Range(seq) == { seq[i] : i \in 1..Len(seq) }

\* C5: a top-level node with a string type for which no validator is
\* registered yields, at its position, a failure result with that type, the
\* node as rawData and an error that quotes the type; the same error is in
\* the output errors list.
UnknownTypeReported ==
  (lastRender.called /\ IsScreenConfig(cfg)) =>
    \A i \in 1..Len(Components) :
      LET node == Components[i] IN
      (HasType(node) /\ TypeOf(node) \notin DOMAIN reg) =>
        /\ ~IsThrow(out)
        /\ i <= Len(out.components)
        /\ out.components[i] =
             [isValid |-> FALSE, type |-> TypeOf(node), rawData |-> node,
              error |-> "Unknown component type: \"" \o TypeOf(node) \o "\""]
        /\ out.components[i].error \in Range(out.errors)

\* a render call on a node of type custom while no validator is registered
\* for custom
UnknownTypeRendered ==
  /\ lastRender.called
  /\ IsScreenConfig(cfg)
  /\ "custom" \notin DOMAIN reg
  /\ CustomNode \in Range(Components)

\* the results a filter on isValid keeps, in order
RECURSIVE KeepValid(_)
KeepValid(results) ==
  IF results = <<>> THEN <<>>
  ELSE IF Head(results).isValid THEN <<Head(results)>> \o KeepValid(Tail(results))
  ELSE KeepValid(Tail(results))

\* a grid or list node, rendered by the default validator of its type, that
\* passes the checks on its own fields
PassesOwnChecks(r, node) ==
  /\ HasType(node)
  /\ TypeOf(node) \in {"grid", "list"}
  /\ r[TypeOf(node)] = TypeOf(node)
  /\ "items" \in DOMAIN node.f /\ node.f.items.k = "array"
  /\ TypeOf(node) = "grid" =>
       /\ "columns" \in DOMAIN node.f
       /\ node.f.columns.k = "number"
       /\ node.f.columns.half >= 2

\* the items of the rendered node are the rendered children, in input order,
\* here and in every rendered grid or list below
RECURSIVE ItemsAreValidChildren(_, _, _)
ItemsAreValidChildren(r, node, result) ==
  PassesOwnChecks(r, node) =>
    LET children == node.f.items.items
        kids == [j \in 1..Len(children) |-> renderComponent(r, children[j])]
    IN /\ result.isValid
       /\ result.component.f.items.items = KeepValid(kids)
       /\ Len(result.component.f.items.items)
            = Cardinality({ j \in 1..Len(kids) : kids[j].isValid })
       /\ \A j \in 1..Len(result.component.f.items.items) :
            result.component.f.items.items[j].isValid
       /\ \A j \in 1..Len(kids) :
            kids[j].isValid => ItemsAreValidChildren(r, children[j], kids[j])

\* C6: the items of a rendered grid or list node are exactly its successfully
\* rendered children, in input order: as many as there are children whose
\* single-node render is valid, and never a failure result.
ItemsKeepValidChildren ==
  (lastRender.called /\ IsScreenConfig(cfg)) =>
    /\ ~IsThrow(out)
    /\ \A i \in 1..Len(Components) :
         ItemsAreValidChildren(reg, Components[i], out.components[i])

\* a rendered grid or list that kept some of its children and dropped others
SomeChildrenDropped ==
  /\ lastRender.called
  /\ IsScreenConfig(cfg)
  /\ \E i \in 1..Len(Components) :
       /\ PassesOwnChecks(reg, Components[i])
       /\ Len(out.components[i].component.f.items.items) > 0
       /\ Len(out.components[i].component.f.items.items)
            < Len(Components[i].f.items.items)

\* what renderComponent returns for a node whose validator is one of the
\* validators the caller registers
CustomResult(v, node) ==
  CASE v = "returnsNull" ->
         [isValid |-> FALSE, type |-> TypeOf(node), rawData |-> node,
          error |-> "Invalid data for component type \"" \o TypeOf(node) \o "\""]
    [] v = "returnsData" -> [isValid |-> TRUE, component |-> node]
    [] OTHER ->
         [isValid |-> FALSE, type |-> TypeOf(node), rawData |-> node,
          error |-> "Validation error: " \o ThrownMessage(v)]

\* C7: render validates a node of kind k with the validator most recently
\* registered for k: the validator of the caller's latest registerComponent
\* call for k, else the default validator of k, else none (the unknown-type
\* failure).
DispatchFollowsLatest ==
  (lastRender.called /\ IsScreenConfig(cfg)) =>
    /\ ~IsThrow(out)
    /\ \A i \in 1..Len(Components) :
         LET node == Components[i] IN
         HasType(node) =>
           out.components[i] =
             IF TypeOf(node) \in DOMAIN lastRender.registered
             THEN CustomResult(lastRender.registered[TypeOf(node)], node)
             ELSE IF TypeOf(node) \in DefaultValidators
             THEN CatchValidator(CallValidator(reg, TypeOf(node), node), node)
             ELSE [isValid |-> FALSE, type |-> TypeOf(node), rawData |-> node,
                   error |-> "Unknown component type: \""
                               \o TypeOf(node) \o "\""]

\* a render call after the caller replaced the header validator and added a
\* validator for custom, on a header node and a custom node
ReplacedValidatorUsed ==
  /\ lastRender.called
  /\ IsScreenConfig(cfg)
  /\ {"header", "custom"} \subseteq DOMAIN lastRender.registered
  /\ lastRender.registered["custom"] = "returnsData"
  /\ lastRender.registered["header"] = "throwsError"
  /\ CustomNode \in Range(Components)
  /\ \E i \in 1..Len(Components) :
       HasType(Components[i]) /\ TypeOf(Components[i]) = "header"

\* a header node with a non-blank text string
IsHeader(node) ==
  /\ HasType(node)
  /\ TypeOf(node) = "header"
  /\ "text" \in DOMAIN node.f
  /\ node.f.text.k = "string"
  /\ node.f.text.s \notin {"", " ", "  "}

\* the style field of a node is absent
StyleAbsent(node) == "style" \notin DOMAIN node.f \/ node.f.style = Undefined

\* C8 as claimed: a header without style is rendered with style "medium",
\* and a header with a style of any value is rendered with that value.
HeaderStylePassedThrough ==
  (lastRender.called /\ IsScreenConfig(cfg) /\ reg["header"] = "header") =>
    \A i \in 1..Len(Components) :
      LET node == Components[i] IN
      IsHeader(node) =>
        /\ out.components[i].isValid
        /\ out.components[i].component.f.style =
             IF StyleAbsent(node) THEN Str("medium") ELSE node.f.style

\* C8 as amended: a header whose style is absent or falsy (null, "", 0,
\* false) is rendered with style "medium"; a header with any other style is
\* rendered with that value unchanged.
HeaderStyleDefaulted ==
  (lastRender.called /\ IsScreenConfig(cfg) /\ reg["header"] = "header") =>
    \A i \in 1..Len(Components) :
      LET node == Components[i] IN
      IsHeader(node) =>
        /\ out.components[i].isValid
        /\ out.components[i].component.f.style =
             IF \/ StyleAbsent(node)
                \/ node.f.style \in {Null, Str(""), Num(0), Bool(FALSE)}
             THEN Str("medium") ELSE node.f.style

\* a header with style "" was rendered with style "medium"
FalsyStyleRendered ==
  /\ lastRender.called
  /\ IsScreenConfig(cfg)
  /\ reg["header"] = "header"
  /\ \E i \in 1..Len(Components) :
       /\ IsHeader(Components[i])
       /\ ~StyleAbsent(Components[i])
       /\ Components[i].f.style = Str("")
       /\ out.components[i].component.f.style = Str("medium")

\* C9: a render call leaves the registry unchanged, and returns what the
\* render call before it returned when that call had an equal configuration
\* and the same registry.
RenderKeepsNoState ==
  [][lastRender'.calls # lastRender.calls =>
       /\ registry' = registry
       /\ lastRender'.registry = registry
       /\ (/\ lastRender.called
           /\ lastRender'.config = lastRender.config
           /\ lastRender'.registry = lastRender.registry)
            => lastRender'.output = lastRender.output]_vars

\* a third render call with errors, on a renderer whose registry never
\* changed
RenderedAgain ==
  /\ lastRender.calls = MaxRenders
  /\ registered = <<>>
  /\ ~IsThrow(out)
  /\ Len(out.errors) > 0

(***************************************************************************)
(* Properties of the pipelines.                                            *)
(***************************************************************************)
\* what applying the stages in order to x gives: a value, or the exception
\* of the first stage that throws
RECURSIVE Composition(_, _)
Composition(stages, x) ==
  IF stages = <<>> THEN [value |-> x]
  ELSE LET completion == CallTransformer(Head(stages), x) IN
       IF IsThrow(completion) THEN completion
       ELSE Composition(Tail(stages), completion.value)

\* the stage sequence pipeline q was created with
CreatedWith(q) ==
  IF derived[q].from = 0 THEN <<>>
  ELSE derived[q].seen \o <<derived[q].transformer>>

\* C10: pipe is immutable: the pipeline p.pipe(g) returns has p's stages
\* followed by g and length p.length + 1, p keeps its stages and its length
\* through every later pipe call, and an execute call on a pipeline ends
\* with the result of the stages the pipeline was created with, whatever
\* pipe calls were made since.
PipeIsImmutable ==
  /\ \A q \in DOMAIN pipelines :
       /\ pipelines[q].transformers = CreatedWith(q)
       /\ derived[q].from # 0 =>
            /\ length(pipelines, q) = Len(derived[q].seen) + 1
            /\ pipelines[derived[q].from].transformers = derived[q].seen
            /\ length(pipelines, derived[q].from) = Len(derived[q].seen)
  /\ \A x \in DOMAIN executions :
       LET call == executions[x].call
           expected == Composition(CreatedWith(call.pipeline), call.input)
       IN /\ call.status = "resolved" => expected = [value |-> call.result]
          /\ call.status = "rejected" => IsThrow(expected)

\* a pipeline with stages that was executed, then piped, then executed again
\* on the same input, both calls returning
ExecutedAfterPipe ==
  \E a, b \in DOMAIN executions, q \in DOMAIN pipelines :
    /\ executions[a].call.pipeline = executions[b].call.pipeline
    /\ executions[a].call.input = executions[b].call.input
    /\ length(pipelines, executions[a].call.pipeline) > 0
    /\ derived[q].from = executions[a].call.pipeline
    /\ executions[a].call.pipelinesAtCall < q
    /\ q <= executions[b].call.pipelinesAtCall
    /\ executions[a].call.status = "resolved"
    /\ executions[b].call.status = "resolved"

(***************************************************************************)
(* Properties of execute.  They are stated on the record of each execute   *)
(* call: the stages of its pipeline, its input, and the stage calls and    *)
(* completions it has made so far, in the order they happened.             *)
(***************************************************************************)
\* the stages of the pipeline that execute call x runs
StagesOf(x) == pipelines[executions[x].call.pipeline].transformers

\* the text a failing transformer throws or rejects with
OriginalMessage(t) == IF t = "fail" THEN "bad input" ELSE "timed out"

\* the position in the trace of the completion of stage k
EndOf(k) == 2 * k

\* C11: in an execute call every stage is invoked once, in the order added:
\* the records of the call alternate between the invocation of stage k and
\* the completion of stage k, for k = 1, 2, ...; stage 1 receives the input
\* and stage k + 1 receives what stage k returned or resolved with, so no
\* stage is invoked while another is in progress; a call that returns has
\* run all stages and returns the result of the last one.
StagesRunInOrder ==
  \A x \in DOMAIN executions :
    LET call == executions[x].call
        t == call.trace
    IN /\ \A j \in 1..Len(t) :
            /\ t[j].stage = (j + 1) \div 2
            /\ t[j].stage <= Len(StagesOf(x))
            /\ j % 2 = 1 =>
                 /\ t[j].op = "start"
                 /\ t[j].v = IF j = 1 THEN [value |-> call.input] ELSE t[j - 1].v
            /\ j % 2 = 0 =>
                 /\ t[j].op = "end"
                 /\ t[j].v = CallTransformer(StagesOf(x)[j \div 2], t[j - 1].v.value)
       /\ call.status = "resolved" =>
            /\ Len(t) = 2 * Len(StagesOf(x))
            /\ Len(t) > 0 => [value |-> call.result] = t[Len(t)].v

\* a call that returned from a pipeline of two or more stages, the first of
\* them async and a later one not
AsyncStageAwaited ==
  \E x \in DOMAIN executions :
    /\ executions[x].call.status = "resolved"
    /\ Len(StagesOf(x)) >= 2
    /\ StagesOf(x)[1] \in AsyncTransformers
    /\ StagesOf(x)[2] \in SyncTransformers

\* C12: when the stage at position k throws or rejects, the call does not
\* return a value: it is rejected with the message 'Pipeline execution
\* failed at step k: ' followed by the message of the stage's failure; and a
\* call is rejected only so.
StageFailureReported ==
  \A x \in DOMAIN executions :
    LET call == executions[x].call
        t == call.trace
        failed == { k \in 1..Len(StagesOf(x)) :
                      EndOf(k) <= Len(t) /\ IsThrow(t[EndOf(k)].v) }
    IN /\ \A k \in failed :
            /\ call.status \in {"awaiting", "rejected"}
            /\ call.status = "awaiting" => IsThrow(call.pending)
            /\ call.status = "rejected" =>
                 call.error = "Pipeline execution failed at step " \o ToString(k)
                                \o ": " \o OriginalMessage(StagesOf(x)[k])
       /\ call.status = "rejected" => failed # {}

\* a rejected call whose second stage is async and rejected
LaterStageRejected ==
  \E x \in DOMAIN executions :
    /\ executions[x].call.status = "rejected"
    /\ Len(executions[x].call.trace) = EndOf(2)
    /\ StagesOf(x)[2] = "reject"

\* C13: a stage failure aborts the call: the completion of the failing
\* stage k is the last record of the call, so no later stage is invoked;
\* each stage before k was invoked once and completed once, and these
\* records stay; the call is rejected, or about to be, and has no result
\* beyond that of stage k - 1.
FailureAbortsCall ==
  \A x \in DOMAIN executions :
    LET call == executions[x].call
        t == call.trace
    IN \A j \in 1..Len(t) :
         (t[j].op = "end" /\ IsThrow(t[j].v)) =>
           /\ j = Len(t)
           /\ call.status \in {"awaiting", "rejected"}
           /\ call.i = t[j].stage - 1
           /\ \A m \in 1..(t[j].stage - 1) :
                /\ Cardinality({ h \in 1..Len(t) :
                                   t[h].stage = m /\ t[h].op = "start" }) = 1
                /\ Cardinality({ h \in 1..Len(t) :
                                   t[h].stage = m /\ t[h].op = "end"
                                   /\ ~IsThrow(t[h].v) }) = 1
           /\ \A h \in 1..Len(t) : t[h].stage <= t[j].stage

\* a rejected call whose first stage failed after a suspension, on a pipeline
\* that has a stage after it
AbortedBeforeLastStage ==
  \E x \in DOMAIN executions :
    /\ executions[x].call.status = "rejected"
    /\ StagesOf(x)[1] = "reject"
    /\ Len(StagesOf(x)) >= 2

\* the records of an execute call that runs alone
RECURSIVE SoloTrace(_, _, _)
SoloTrace(stages, k, x) ==
  IF k > Len(stages) THEN <<>>
  ELSE LET completion == CallTransformer(stages[k], x) IN
       <<Started(k, x), Ended(k, completion)>>
         \o (IF IsThrow(completion) THEN <<>>
             ELSE SoloTrace(stages, k + 1, completion.value))

\* C14: execute calls in flight at the same time are independent: at every
\* step a call has made the stage calls it makes when run alone, with the
\* same arguments and completions, it holds the intermediate result of its
\* own stages, and it ends as it ends when run alone.
ConcurrentCallsIndependent ==
  \A x \in DOMAIN executions :
    LET call == executions[x].call
        solo == SoloTrace(StagesOf(x), 1, call.input)
        alone == Composition(StagesOf(x), call.input)
    IN /\ Len(call.trace) <= Len(solo)
       /\ call.trace = SubSeq(solo, 1, Len(call.trace))
       /\ Composition(SubSeq(StagesOf(x), 1, call.i), call.input)
            = [value |-> call.result]
       /\ call.status = "resolved" =>
            /\ alone = [value |-> call.result]
            /\ call.trace = solo
       /\ call.status = "rejected" =>
            /\ IsThrow(alone)
            /\ call.trace = solo
            /\ call.error = StepFailure(call.i, alone)

\* two calls with different inputs, on pipelines that share a first stage, the
\* second made while the first was in flight, both suspended at an async stage
\* and both returned
InterleavedCallsEnded ==
  \E a, b \in DOMAIN executions :
    /\ a \in executions[b].during
    /\ executions[a].call.input # executions[b].call.input
    /\ executions[a].call.status = "resolved"
    /\ executions[b].call.status = "resolved"
    /\ Len(StagesOf(a)) >= 1 /\ Len(StagesOf(b)) >= 1
    /\ \E k \in 1..Len(StagesOf(a)) : StagesOf(a)[k] \in AsyncTransformers
    /\ \E k \in 1..Len(StagesOf(b)) : StagesOf(b)[k] \in AsyncTransformers

\* C15: execute on a pipeline without stages invokes nothing and returns the
\* input it was given.
EmptyPipelineReturnsInput ==
  \A x \in DOMAIN executions :
    StagesOf(x) = <<>> =>
      /\ executions[x].call.status = "resolved"
      /\ executions[x].call.result = executions[x].call.input
      /\ executions[x].call.trace = <<>>

\* two calls on a pipeline without stages, one for each input
EmptyPipelineExecuted ==
  \E a, b \in DOMAIN executions :
    /\ StagesOf(a) = <<>> /\ StagesOf(b) = <<>>
    /\ executions[a].call.input # executions[b].call.input
    /\ executions[a].call.status = "resolved"
    /\ executions[b].call.status = "resolved"

(***************************************************************************)
(* Properties of the library transformers.  They are stated on the last    *)
(* transformer call: its parameter, the array it was given and what it     *)
(* returned.                                                               *)
(***************************************************************************)
\* the last call was a call of the transformer of this name
IsCall(name) == applied.called /\ applied.name = name

\* the objects of an array, by identity
Objects(array) == { array[i].id : i \in 1..Len(array) }

\* C16: sampleMetrics(n), for n >= 1, applied to an input longer than n
\* returns an array that holds the first and the last object of the input
\* and has at most n + 1 entries.
SampleKeepsEndsWithinCap ==
  (/\ IsCall("sampleMetrics")
   /\ applied.parameter >= 1
   /\ Len(applied.before) > applied.parameter) =>
    /\ applied.before[1].id \in Objects(applied.output)
    /\ applied.before[Len(applied.before)].id \in Objects(applied.output)
    /\ Len(applied.output) <= applied.parameter + 1

\* the input samples of a name whose timestamp is in [startTime, endTime)
SamplesIn(array, name, startTime, endTime) ==
  { j \in 1..Len(array) : /\ array[j].name = name
                          /\ startTime <= array[j].timestamp
                          /\ array[j].timestamp < endTime }

\* the earliest timestamp of the samples of a name
EarliestOf(array, name) ==
  CHOOSE t \in { array[j].timestamp : j \in SamplesIn(array, name, 0, 10000000) } :
    \A j \in SamplesIn(array, name, 0, 10000000) : t <= array[j].timestamp

SeriesNeverMixed ==
  IsCall("aggregateByInterval") =>
    /\ \A i \in 1..Len(applied.output) :
         LET a == applied.output[i]
             own == SamplesIn(applied.before, a.name, a.startTime, a.endTime)
         IN /\ own # {}
            /\ a.startTime >= EarliestOf(applied.before, a.name)
            /\ (a.startTime - EarliestOf(applied.before, a.name))
                 % IntervalMs(applied.parameter) = 0
            /\ a.endTime = a.startTime + IntervalMs(applied.parameter)
            /\ Len(a.values) = Cardinality(own)
            /\ \A v \in Range(a.values) :
                 Cardinality({ j \in 1..Len(a.values) : a.values[j] = v })
                   = Cardinality({ j \in own : applied.before[j].value = v })
    /\ \A j \in 1..Len(applied.before) :
         \E i \in 1..Len(applied.output) :
           /\ applied.output[i].name = applied.before[j].name
           /\ applied.output[i].startTime
                = EarliestOf(applied.before, applied.before[j].name)

\* an aggregated array with two samples of different names at the same time,
\* one of them of a series that began earlier
SeriesShareTimestamp ==
  /\ IsCall("aggregateByInterval")
  /\ \E j, k, h \in 1..Len(applied.before) :
       /\ applied.before[j].name # applied.before[k].name
       /\ applied.before[j].timestamp = applied.before[k].timestamp
       /\ applied.before[h].name = applied.before[j].name
       /\ applied.before[h].timestamp < applied.before[j].timestamp

\* a series whose samples all have the same value
IsConstant(series) ==
  /\ Len(series) >= 1
  /\ \A i \in 1..Len(series) : series[i].value = series[1].value

\* the number nearest to j times c is j times c
IsExactMultiple(c, j) ==
  LET product == IF c.e < 0 THEN Round(j * c.m, Pow2(-c.e))
                 ELSE Round(j * c.m * Pow2(c.e), 1)
      lo == IF product.e < c.e THEN product.e ELSE c.e
  IN Over(product, lo) = j * Over(c, lo)

\* the length of the window that ends at the 1-based index i
WindowLength(i, windowSize) == IF i < windowSize THEN i ELSE windowSize

\* C19 as stated: movingAverage(w) applied to a series of one constant value
\* returns a series of the same length in which every value is that constant.
ConstantSeriesUnchanged ==
  (IsCall("movingAverage") /\ IsConstant(applied.before)) =>
    /\ Len(applied.output) = Len(applied.before)
    /\ \A i \in 1..Len(applied.output) :
         applied.output[i].value = applied.before[1].value

\* C19: movingAverage(w) applied to a series of one constant value c returns
\* a series of the same length, in which the value at index i is c whenever
\* w < 2 or the sums c, 2c, ..., kc of the k = min(w, i + 1) values of its
\* window are numbers (no sum is rounded); a window whose sum is rounded can
\* give a value next to c.
ConstantSeriesAveraged ==
  (IsCall("movingAverage") /\ IsConstant(applied.before)) =>
    /\ Len(applied.output) = Len(applied.before)
    /\ \A i \in 1..Len(applied.output) :
         (\/ applied.parameter < 2
          \/ \A j \in 1..WindowLength(i, applied.parameter) :
               IsExactMultiple(applied.before[1].value, j)) =>
           applied.output[i].value = applied.before[1].value

\* a constant series of three or more samples averaged over windows of three
ConstantSeriesSmoothed ==
  /\ IsCall("movingAverage")
  /\ IsConstant(applied.before)
  /\ applied.parameter >= 3
  /\ Len(applied.before) >= 3
  /\ applied.output[3].metadata.windowSize = 3
  /\ applied.output[3].value = applied.before[1].value

\* C20: no library transformer changes its input: after the call the
\* caller's array has the entries it had before the call, in the same order,
\* and every entry has the field values it had.
TransformersLeaveInput ==
  applied.called =>
    /\ Len(applied.after) = Len(applied.before)
    /\ \A i \in 1..Len(applied.before) : applied.after[i] = applied.before[i]
    /\ metrics = applied.before

\* a call of movingAverage that returned values other than those of its input
InputKeptWhileSmoothed ==
  /\ IsCall("movingAverage")
  /\ Len(applied.before) >= 2
  /\ \E i \in 1..Len(applied.output) :
       applied.output[i].value # applied.before[i].value

(***************************************************************************)
(* Properties of the parser.  They are stated on the last parseMetrics     *)
(* call: its argument parsed.input and its result parsed.result.           *)
(***************************************************************************)
\* the indices of the errors of the last call
ErrorIndices ==
  { parsed.result.errors[e].index : e \in DOMAIN parsed.result.errors }

\* the items of the argument that have no error, in the order of the argument
ItemsWithoutError ==
  LET kept == { i \in DOMAIN parsed.input : (i - 1) \notin ErrorIndices }
  IN [k \in 1..Cardinality(kept) |->
        parsed.input[CHOOSE i \in kept :
                       Cardinality({ j \in kept : j <= i }) = k]]

\* C21: parseMetrics partitions its argument: the lengths of valid and errors
\* add up to the length of the argument, the indices of errors are indices of
\* the argument in strictly ascending order (so no item has two errors), and
\* valid holds, in the order of the argument, one entry for each item that
\* has no error.
ParsePartitionsInput ==
  parsed.called =>
    LET valid == parsed.result.valid
        errors == parsed.result.errors
    IN /\ Len(valid) + Len(errors) = Len(parsed.input)
       /\ \A e \in DOMAIN errors :
            /\ errors[e].index \in 0..(Len(parsed.input) - 1)
            /\ e > 1 => errors[e - 1].index < errors[e].index
       /\ Len(valid) = Len(ItemsWithoutError)
       /\ \A k \in DOMAIN valid :
            /\ valid[k].f.id = ItemsWithoutError[k].f.id
            /\ valid[k].f.name = ItemsWithoutError[k].f.name
            /\ valid[k].f.timestamp = ItemsWithoutError[k].f.timestamp

\* a call on an array with an item that passes and, after it, an item that
\* fails several checks and a later item that fails too
ParsedMixedArray ==
  /\ parsed.called
  /\ Len(parsed.result.valid) >= 1
  /\ Len(parsed.result.errors) >= 2
  /\ \E i \in DOMAIN parsed.input :
       /\ parsed.input[i].k = "object"
       /\ Cardinality(Failing(parsed.input[i])) >= 2

\* the reason of the failure at position i of the last render's components
ReasonAt(i) ==
  IF out.components[i].isValid THEN "" ELSE out.components[i].error

\* the validator registered for node's type returns null on node
ValidatorReturnsNull(node) ==
  CallValidator(reg, reg[TypeOf(node)], node) = ReturnNull

\* C22: the single-node render reports the first failing check in a fixed
\* order: not an object (or null), then no string type, then no validator
\* registered for the type, then a validator that returns null; so an unknown
\* type is never reported as invalid data, nor invalid data of a known type as
\* an unknown type.
FirstFailingCheckReported ==
  (lastRender.called /\ IsScreenConfig(cfg)) =>
    \A i \in 1..Len(Components) :
      LET node == Components[i]
          unknown == "Unknown component type: \"" \o TypeOf(node) \o "\""
          invalid == "Invalid data for component type \"" \o TypeOf(node) \o "\""
      IN CASE node.k \notin {"object", "array"} ->
                ReasonAt(i) = "Component data must be an object"
           [] node.k \in {"object", "array"} /\ ~HasType(node) ->
                ReasonAt(i) = "Component must have a \"type\" field"
           [] HasType(node) /\ TypeOf(node) \notin DOMAIN reg ->
                ReasonAt(i) = unknown /\ ReasonAt(i) # invalid
           [] HasType(node) /\ TypeOf(node) \in DOMAIN reg ->
                /\ ReasonAt(i) # unknown
                /\ ValidatorReturnsNull(node) => ReasonAt(i) = invalid

\* a render call on a node that is no object and a node whose type is
\* registered and whose validator returned null
EachCheckFailed ==
  /\ lastRender.called
  /\ IsScreenConfig(cfg)
  /\ \E i, j \in 1..Len(Components) :
       /\ Components[i].k = "number"
       /\ ReasonAt(i) = "Component data must be an object"
       /\ HasType(Components[j])
       /\ TypeOf(Components[j]) \in DOMAIN reg
       /\ ValidatorReturnsNull(Components[j])
       /\ ReasonAt(j) = "Invalid data for component type \""
                          \o TypeOf(Components[j]) \o "\""

\* a number that is a positive integer
IsPositiveInteger(v) == v.k = "number" /\ v.half >= 2 /\ v.half % 2 = 0

\* C23: a grid node is rendered valid only if its columns is a positive
\* integer and its items is an array; with any other columns (zero, negative,
\* not a number, or a number that is no integer) the node fails as invalid
\* data for the type grid.
GridNeedsPositiveInteger ==
  (lastRender.called /\ IsScreenConfig(cfg)) =>
    \A i \in 1..Len(Components) :
      LET node == Components[i] IN
      (HasType(node) /\ TypeOf(node) = "grid" /\ reg["grid"] = "grid") =>
        /\ out.components[i].isValid =>
             /\ IsPositiveInteger(Get(node, "columns"))
             /\ IsArray(Get(node, "items"))
        /\ ~IsPositiveInteger(Get(node, "columns")) =>
             ReasonAt(i) = "Invalid data for component type \"grid\""

\* the stride of the last sampleMetrics call, and how many indices 0, step,
\* 2 * step, ... lie below the length of its input
SampleStep == Len(applied.before) \div applied.parameter
SampleCount == (Len(applied.before) - 1) \div SampleStep + 1
\* the last of these indices (0-based), and the last index of the input
LastSelected == (SampleCount - 1) * SampleStep
FinalIndex == Len(applied.before) - 1

\* the output is the input entries at 0, step, 2 * step, ..., and after them
\* the final entry of the input if withFinal
IsStrided(withFinal) ==
  /\ Len(applied.output) = SampleCount + (IF withFinal THEN 1 ELSE 0)
  /\ \A k \in 1..SampleCount :
       applied.output[k] = applied.before[(k - 1) * SampleStep + 1]
  /\ withFinal => applied.output[SampleCount + 1] = applied.before[FinalIndex + 1]

AppliedInterval == applied.parameter * 60 * 1000

\* C25: the buckets of aggregateByInterval are half-open and aligned to the
\* first sample of the series: each AggregatedMetric of a name starts at the
\* earliest timestamp of the name plus a whole number of intervals and ends
\* one interval later, counts exactly the samples of the name with startTime
\* <= timestamp < endTime, and shares its startTime with no other
\* AggregatedMetric of the name; a sample at the endTime of a bucket is
\* counted in the bucket that starts there.
BucketsAreHalfOpen ==
  IsCall("aggregateByInterval") =>
    LET input == applied.before
        output == applied.output
    IN /\ \A o \in DOMAIN output :
            LET first == EarliestOf(input, output[o].name)
                counted == SamplesIn(input, output[o].name,
                                     output[o].startTime, output[o].endTime)
            IN /\ output[o].startTime >= first
               /\ (output[o].startTime - first) % AppliedInterval = 0
               /\ output[o].endTime = output[o].startTime + AppliedInterval
               /\ output[o].count = Cardinality(counted)
               /\ \A v \in DOMAIN output[o].values :
                    \E j \in counted : input[j].value = output[o].values[v]
               /\ \A q \in DOMAIN output :
                    (q # o /\ output[q].name = output[o].name)
                      => output[q].startTime # output[o].startTime
       /\ \A o \in DOMAIN output, j \in DOMAIN input :
            (input[j].name = output[o].name
             /\ input[j].timestamp = output[o].endTime)
              => \E q \in DOMAIN output :
                   /\ output[q].name = output[o].name
                   /\ output[q].startTime = output[o].endTime
                   /\ \E v \in DOMAIN output[q].values :
                        output[q].values[v] = input[j].value

\* a call on a series with a sample at the end of a bucket of its name
SampleAtBucketEnd ==
  /\ IsCall("aggregateByInterval")
  /\ \E o \in DOMAIN applied.output, j \in DOMAIN applied.before :
       /\ applied.before[j].name = applied.output[o].name
       /\ applied.before[j].timestamp = applied.output[o].endTime

\* the position in the array of the first sample of a name
FirstAppearance(array, name) ==
  CHOOSE j \in DOMAIN array :
    array[j].name = name /\ \A i \in 1..(j - 1) : array[i].name # name

\* C26: the output of aggregateByInterval is sorted ascending by startTime
\* across all names; AggregatedMetrics of different names with the same
\* startTime are in the order in which their names first appear in the input;
\* an empty input gives an empty output.
OutputSortedByStart ==
  IsCall("aggregateByInterval") =>
    LET input == applied.before
        output == applied.output
    IN /\ input = <<>> => output = <<>>
       /\ \A o, q \in DOMAIN output :
            o < q =>
              /\ output[o].startTime <= output[q].startTime
              /\ (output[o].startTime = output[q].startTime
                  /\ output[o].name # output[q].name)
                   => FirstAppearance(input, output[o].name)
                        < FirstAppearance(input, output[q].name)

\* a call that returned AggregatedMetrics of two names with the same startTime,
\* on an input in which a later sample has an earlier timestamp
EqualStartsOfTwoNames ==
  /\ IsCall("aggregateByInterval")
  /\ \E o, q \in DOMAIN applied.output :
       /\ o < q
       /\ applied.output[o].startTime = applied.output[q].startTime
       /\ applied.output[o].name # applied.output[q].name
  /\ \E i, j \in DOMAIN applied.before :
       i < j /\ applied.before[j].timestamp < applied.before[i].timestamp

\* the average, as JavaScript computes it, of the values of the input of the
\* last call at the 1-based positions first..last
TrailingAverage(first, last) ==
  FDiv(FSum([j \in 1..(last - first + 1) |-> applied.before[first + j - 1].value]),
       Float(last - first + 1))

\* the 1-based position at which the window that ends at i begins
WindowStart(i) ==
  IF i - applied.parameter + 1 > 1 THEN i - applied.parameter + 1 ELSE 1

\* entry i of the output has the name, timestamp and step of entry i of the
\* input, and the average of its trailing window as value
IsTrailingAverage(i) ==
  /\ applied.output[i].name = applied.before[i].name
  /\ applied.output[i].timestamp = applied.before[i].timestamp
  /\ applied.output[i].step = applied.before[i].step
  /\ applied.output[i].value = TrailingAverage(WindowStart(i), i)

\* entry i of the output holds the input value in its metadata
KeepsOriginalValue(i) ==
  /\ "originalValue" \in DOMAIN applied.output[i].metadata
  /\ applied.output[i].metadata.originalValue = applied.before[i].value

\* C27 as stated: for every window size (of one or more), movingAverage
\* returns a series of the same length whose entry i has the average of the
\* input values of the trailing window ending at i as value, the input value
\* in its metadata under originalValue, and its other fields unchanged.
EveryWindowKeepsOriginal ==
  (IsCall("movingAverage") /\ applied.parameter >= 1) =>
    /\ Len(applied.output) = Len(applied.before)
    /\ \A i \in 1..Len(applied.output) :
         IsTrailingAverage(i) /\ KeepsOriginalValue(i)

\* C27, amended: movingAverage returns a series of the same length; for a
\* window size of two or more, entry i has the average of the trailing window
\* as value and the input value in its metadata under originalValue; for a
\* window size below two the output is the input, entry by entry, with the
\* metadata as it was.
TrailingWindowAveraged ==
  IsCall("movingAverage") =>
    /\ Len(applied.output) = Len(applied.before)
    /\ \A i \in 1..Len(applied.output) :
         IF applied.parameter >= 2
         THEN IsTrailingAverage(i) /\ KeepsOriginalValue(i)
         ELSE applied.output[i] = applied.before[i]

\* a call with a window of two on three or more samples: the window of the
\* third sample leaves out the first, and its average is not its own value
WindowMovedPastStart ==
  /\ IsCall("movingAverage")
  /\ applied.parameter = 2
  /\ Len(applied.before) >= 3
  /\ applied.before[1].value # applied.before[3].value
  /\ applied.output[3].value # applied.before[3].value
  /\ applied.output[3].metadata.originalValue = applied.before[3].value

\* the sum of the count fields of the entries of an array of AggregatedMetrics
RECURSIVE TotalCount(_)
TotalCount(array) ==
  IF array = <<>> THEN 0 ELSE Head(array).count + TotalCount(Tail(array))

\* how often the value v of the name n occurs in the values lists of an array
\* of AggregatedMetrics
RECURSIVE OccurrencesInValues(_, _, _)
OccurrencesInValues(array, n, v) ==
  IF array = <<>> THEN 0
  ELSE (IF Head(array).name = n
        THEN Cardinality({ k \in DOMAIN Head(array).values :
                             Head(array).values[k] = v })
        ELSE 0)
       + OccurrencesInValues(Tail(array), n, v)

\* C28: aggregateByInterval conserves samples: the counts of the output add
\* up to the length of the input, and for each name every value occurs in
\* the values lists of the name as often as among the input samples of the
\* name.
AggregationConservesSamples ==
  IsCall("aggregateByInterval") =>
    LET input == applied.before
        output == applied.output
    IN /\ TotalCount(output) = Len(input)
       /\ \A o \in DOMAIN output :
            \E j \in DOMAIN input : input[j].name = output[o].name
       /\ \A j \in DOMAIN input :
            OccurrencesInValues(output, input[j].name, input[j].value)
              = Cardinality({ i \in DOMAIN input :
                                /\ input[i].name = input[j].name
                                /\ input[i].value = input[j].value })

\* a call on three or more samples that returned several AggregatedMetrics,
\* one of them counting several samples
SeveralSamplesInOneBucket ==
  /\ IsCall("aggregateByInterval")
  /\ Len(applied.before) >= 3
  /\ Len(applied.output) >= 2
  /\ \E o \in DOMAIN applied.output : applied.output[o].count >= 2

(***************************************************************************)
(* Properties of the API client.  They are stated on each call: the        *)
(* outcomes of its attempts, the delays it waited, and what get returned.  *)
(***************************************************************************)
\* an ApiResponse: a success with data, or a failure with an error
IsApiResponse(response) ==
  /\ "success" \in DOMAIN response
  /\ IF response.success
     THEN DOMAIN response = {"success", "data"}
     ELSE /\ DOMAIN response = {"success", "error"}
          /\ response.error.code \in {"HTTP_ERROR", "NETWORK_ERROR"}

\* get returned this kind of failure to the call
FailedWith(call, code) ==
  /\ call.at = "done"
  /\ ~call.inner.success
  /\ call.inner.error.code = code

\* all attempts of the call before the last threw
EarlierAttemptsThrew(call) ==
  \A a \in 1..(Len(call.attempts) - 1) : call.attempts[a] = "threw"

\* the safety part of C29, for one call on a client with maxRetries >= 0
RetriesAreBounded(call) ==
  /\ Len(call.attempts) <= client.maxRetries + 1
  /\ Len(call.delays)
       = Len(call.attempts) - (IF call.at = "delay" THEN 0 ELSE 1)
  /\ \A d \in DOMAIN call.delays : call.delays[d] = client.retryDelay
  /\ EarlierAttemptsThrew(call)
  /\ call.at = "done" =>
       /\ IsApiResponse(call.inner)
       /\ call.method = "get" =>
            call.status = "resolved" /\ call.result = call.inner
       /\ FailedWith(call, "NETWORK_ERROR") =>
            /\ Len(call.attempts) = client.maxRetries + 1
            /\ call.attempts[Len(call.attempts)] = "threw"
       /\ call.inner.success <=> call.attempts[Len(call.attempts)] = "success"

\* C29: get is a bounded retry loop: on a client with maxRetries = r >= 0 a
\* call makes at most r + 1 attempts, with one delay of retryDelay between
\* consecutive attempts; it ends, and get returns an ApiResponse (a call of
\* get resolves, never rejects); the response is NETWORK_ERROR only after
\* r + 1 attempts that all threw, and a success is the outcome of the last
\* attempt, after attempts that all threw.
GetIsBoundedRetryLoop ==
  /\ [](client.maxRetries >= 0 =>
          \A x \in DOMAIN requests : RetriesAreBounded(requests[x]))
  /\ \A x \in 1..MaxRequests :
       (x \in DOMAIN requests)
         ~> (x \in DOMAIN requests /\ requests[x].at = "done")

\* a call of get on a client with two retries and a delay of 250 that ended
\* with NETWORK_ERROR after three attempts
RetriesExhausted ==
  \E x \in DOMAIN requests :
    /\ requests[x].method = "get"
    /\ client.maxRetries = 2
    /\ client.retryDelay = 250
    /\ FailedWith(requests[x], "NETWORK_ERROR")
    /\ requests[x].attempts = <<"threw", "threw", "threw">>
    /\ requests[x].delays = <<250, 250>>

\* the fetch of the call's last attempt gave a response that is not ok
GotResponseNotOk(call) ==
  call.response # Undefined /\ ~call.response.ok

\* the dates of an experiment are Date objects, and its id is that of raw
HasDates(experiment, raw) ==
  /\ Get(experiment, "createdAt").k = "date"
  /\ Get(experiment, "updatedAt").k = "date"
  /\ Get(experiment, "id") = Get(raw, "id")

\* what a call that ended made of the response of get
FailurePassedDatesTurned(call) ==
  IF ~call.inner.success
  THEN call.status = "resolved" /\ call.result = call.inner
  ELSE CASE call.method = "get" -> call.result = call.inner
         [] call.method = "getExperiment" ->
              call.status = "resolved" =>
                /\ call.result.success
                /\ HasDates(call.result.data, call.inner.data)
         [] call.method = "getExperiments" ->
              call.status = "resolved" =>
                /\ call.result.success
                /\ LET turned == Get(call.result.data, "experiments").items
                       raw == Get(call.inner.data, "experiments").items
                   IN /\ Len(turned) = Len(raw)
                      /\ \A i \in DOMAIN raw : HasDates(turned[i], raw[i])

\* the state part of C30, for one call
HttpFailureEndsCall(call) ==
  /\ GotResponseNotOk(call) =>
       /\ call.at = "done"
       /\ call.inner = [success |-> FALSE,
                        error |-> [code |-> "HTTP_ERROR",
                                   message |-> "HTTP " \o ToString(call.response.status)
                                                 \o ": " \o call.response.statusText,
                                   statusCode |-> call.response.status]]
       /\ Len(call.delays) = Len(call.attempts) - 1
       /\ call.retries = client.maxRetries - Len(call.delays)
  /\ call.at = "done" => FailurePassedDatesTurned(call)

====
